---- MODULE Spec2Model ----
(***************************************************************************)
(* A model of the text-to-speech orchestration of groit-ai-backend:        *)
(*   core/services/gemini_tts.py     chunker, retrying transport, the      *)
(*                                   chunk loop of synthesize, merge       *)
(*   core/services/gemini_client.py  the text-generation transport         *)
(*   core/services/tts.py            Google TTS calls, voice listing       *)
(*   core/services/vertex_models.py  model listing                         *)
(*                                                                         *)
(* Text is a sequence of one-character strings; " " is whitespace.         *)
(* Time is in milliseconds.                                                *)
(***************************************************************************)
EXTENDS Integers, Sequences, FiniteSets, TLC

VARIABLES
    env,                   \* os.environ as read by the code (fixed per run)
    text,                  \* synthesize(text, ...)
    pc,                    \* position of synthesize: start, loop, merge, done, raised
    story_chunks,          \* the work list
    index,                 \* position in the work list
    normalized_wav_parts,  \* segments collected so far
    no_audio_attempt,      \* loop variable of the inner for loop
    result,                \* what synthesize returned or raised
    visit_log,             \* payloads sent during the latest visit of a chunk
    net,                   \* one external call: its function, attempt, sleeps, ...
    orch,                  \* one call of a function that tries the providers in turn
    codec,                 \* one call of _merge_wav_b64, _normalize_audio, ...
    catalog,               \* the voices the provider lists
    VOICE_CACHE,           \* tts._VOICE_CACHE
    resolving,             \* the calls of _resolve_voice_selection, one per thread
    db,                    \* the StoryRequest row of one request
    view                   \* the calls of the synthesize-audio endpoint for it

vars == <<env, text, pc, story_chunks, index, normalized_wav_parts,
          no_audio_attempt, result, visit_log, net, orch,
          codec, catalog, VOICE_CACHE, resolving, db, view>>

otherVars == <<codec, catalog, VOICE_CACHE, resolving, db, view>>

resolverVars == <<catalog, VOICE_CACHE, resolving>>

IdleCodec == [fn |-> "none", pc |-> "idle"]

\* no story request is followed
NoRow ==
    [status |-> "none", story_text |-> [empty |-> TRUE, words |-> 0], error_message |-> <<>>,
     audio_data |-> <<>>, audio_format |-> "", audio_url |-> ""]

RequestIdle ==
    /\ db = NoRow
    /\ view = [fn |-> "none", pc |-> "idle"]

\* no call of _merge_wav_b64, _normalize_audio or _resolve_voice_selection
OtherIdle ==
    /\ codec = IdleCodec
    /\ catalog = {}
    /\ VOICE_CACHE = <<>>
    /\ resolving = <<>>
    /\ RequestIdle

synthVars == <<text, pc, story_chunks, index, normalized_wav_parts,
               no_audio_attempt, result, visit_log>>

(***************************************************************************)
(* Bounds of the model.                                                    *)
(***************************************************************************)
MaxTextWords == 4
MaxFloor == 2
MaxNoAudioRetries == 2
MaxRetries == 3
MaxChunkerWords == 7
MaxLimit == 4

(***************************************************************************)
(* Python helpers.                                                         *)
(***************************************************************************)
Min(a, b) == IF a < b THEN a ELSE b

Max(a, b) == IF a > b THEN a ELSE b

\* whitespace, as str.split() and str.strip() see it
IsSpace(c) == c \in {" ", "\n", "\t"}

\* seq[a:b] with 0-based Python bounds
Slice(s, a, b) == SubSeq(s, a + 1, b)

RECURSIVE SplitFrom(_, _, _)
SplitFrom(s, i, cur) ==
    IF i > Len(s)
    THEN (IF cur = <<>> THEN <<>> ELSE <<cur>>)
    ELSE IF IsSpace(s[i])
         THEN (IF cur = <<>> THEN SplitFrom(s, i + 1, <<>>)
                             ELSE <<cur>> \o SplitFrom(s, i + 1, <<>>))
         ELSE SplitFrom(s, i + 1, Append(cur, s[i]))

\* str.split(): the maximal runs of non-whitespace characters
PySplit(s) == SplitFrom(s, 1, <<>>)

RECURSIVE LStrip(_)
LStrip(s) == IF s # <<>> /\ IsSpace(Head(s)) THEN LStrip(Tail(s)) ELSE s

RECURSIVE RStrip(_)
RStrip(s) ==
    IF s # <<>> /\ IsSpace(s[Len(s)]) THEN RStrip(SubSeq(s, 1, Len(s) - 1)) ELSE s

\* str.strip()
Strip(s) == RStrip(LStrip(s))

RECURSIVE Join(_)
\* " ".join(words)
Join(words) ==
    IF words = <<>> THEN <<>>
    ELSE IF Len(words) = 1 THEN words[1]
    ELSE words[1] \o <<" ">> \o Join(Tail(words))

RECURSIVE Flatten(_)
Flatten(ss) == IF ss = <<>> THEN <<>> ELSE Head(ss) \o Flatten(Tail(ss))

WordCount(chunk) == Len(PySplit(chunk))

\* the words of all chunks of a work list, in list order
WordsOf(chunks) == Flatten([i \in 1..Len(chunks) |-> PySplit(chunks[i])])

(***************************************************************************)
(* gemini_tts.py: the chunker.                                             *)
(***************************************************************************)
RECURSIVE WindowsFullOnly(_, _, _)
WindowsFullOnly(words, start, max_words) ==
    IF start + max_words <= Len(words)
    THEN <<Strip(Join(Slice(words, start, start + max_words)))>>
            \o WindowsFullOnly(words, start + max_words, max_words)
    ELSE <<>>

RECURSIVE Windows(_, _, _)
Windows(words, start, max_words) ==
    IF start < Len(words)
    THEN LET end == Min(start + max_words, Len(words))
         IN  <<Strip(Join(Slice(words, start, end)))>> \o Windows(words, end, max_words)
    ELSE <<>>

SplitStoryNoStrip(t, max_words) ==
    LET words == PySplit(t)
    IN  IF words = <<>> THEN <<>>
        ELSE IF Len(words) <= max_words THEN <<t>>
        ELSE Windows(words, 0, max_words)

\* _split_story(text, max_words), for max_words >= 1
SplitStory(t, max_words) ==
    LET words == PySplit(t)
    IN  IF words = <<>> THEN <<>>
        ELSE IF Len(words) <= max_words THEN <<Strip(t)>>
        ELSE Windows(words, 0, max_words)

SplitChunkHalfDropWord(chunk) ==
    LET words == PySplit(chunk)
    IN  IF Len(words) < 2 THEN <<chunk>>
        ELSE LET mid == Max(Len(words) \div 2, 1)
                 left == Strip(Join(Slice(words, 0, mid)))
                 right == Strip(Join(Slice(words, mid + 1, Len(words))))
             IN  SelectSeq(<<left, right>>, LAMBDA part : part # <<>>)

SplitChunkHalfCeil(chunk) ==
    LET words == PySplit(chunk)
    IN  IF Len(words) < 2 THEN <<chunk>>
        ELSE LET mid == (Len(words) + 1) \div 2
                 left == Strip(Join(Slice(words, 0, mid)))
                 right == Strip(Join(Slice(words, mid, Len(words))))
             IN  SelectSeq(<<left, right>>, LAMBDA part : part # <<>>)

\* _split_chunk_half(chunk)
SplitChunkHalf(chunk) ==
    LET words == PySplit(chunk)
    IN  IF Len(words) < 2 THEN <<chunk>>
        ELSE LET mid == Max(Len(words) \div 2, 1)
                 left == Strip(Join(Slice(words, 0, mid)))
                 right == Strip(Join(Slice(words, mid, Len(words))))
             IN  SelectSeq(<<left, right>>, LAMBDA part : part # <<>>)

(***************************************************************************)
(* Messages.  The classifiers search the lower-cased text of an exception   *)
(* for fixed phrases, and most messages embed text the provider controls   *)
(* (the HTTP error body, the JSON of the reply).  A text is modelled by    *)
(* the set of searched phrases it contains.                                *)
(***************************************************************************)
P_NO_AUDIO == "returned no audio data"

P_EXCEEDS == "exceeds the maximum number of tokens allowed"

P_INPUT_COUNT == "input token count"

P_MAX_TOKENS == "maximum number of tokens"

\* texts the provider may send: P_EXCEEDS contains P_MAX_TOKENS as a substring
Bodies ==
    { {},
      {P_INPUT_COUNT, P_EXCEEDS, P_MAX_TOKENS},
      {P_INPUT_COUNT, P_MAX_TOKENS},
      {P_NO_AUDIO} }

\* exceptions: GeminiTTSError carries a message; anything else is not caught
\* by synthesize (socket.timeout, ValueError, wave.Error, ...)
TTSError(kind, code, body, msg) ==
    [type |-> "GeminiTTSError", kind |-> kind, code |-> code, body |-> body, msg |-> msg]

Uncaught(kind) ==
    [type |-> "Uncaught", kind |-> kind, code |-> 0, body |-> {}, msg |-> {}]

Return(v) == [ret |-> "return", val |-> v]

Raise(e) == [ret |-> "raise", val |-> e]

\* _is_token_limit_error(message)
IsTokenLimitError(message) ==
    P_EXCEEDS \in message \/ (P_INPUT_COUNT \in message /\ P_MAX_TOKENS \in message)

\* _is_no_audio_error(message)
IsNoAudioError(message) == P_NO_AUDIO \in message

(***************************************************************************)
(* What the network and the provider may answer to one HTTP request.       *)
(***************************************************************************)
\* retry_codes / retry_statuses
RetryCodes == {408, 409, 425, 429, 500, 502, 503, 504}

\* the statuses the modelled provider answers with besides 200
SampleCodes == {400, 503}

Mimes == {"audio/l16", "audio/wav", "audio/mpeg"}

Sigs == {"wav", "mp3", "ogg", "flac", "none"}

\* inline audio of a reply: declared MIME, binary signature of the bytes,
\* whether the base64 text decodes
Audios ==
    [mime : Mimes, sig : Sigs, b64ok : {TRUE}]
        \cup {[mime |-> "audio/wav", sig |-> "none", b64ok |-> FALSE]}

\* the JSON of a 200 reply of the native-audio endpoint, by what
\* _parse_vertex_response finds in it; body: the phrases its text contains
VertexData ==
    [shape : {"audio"}, body : {{}}, audio : Audios]
        \cup [shape : {"no_audio", "no_candidates", "no_parts", "bad_type"},
              body : Bodies, audio : {[mime |-> "", sig |-> "none", b64ok |-> TRUE]}]

\* urlopen: a 200 reply (JSON or not), an HTTPError, a URLError (raised while
\* connecting or sending), or an error raised while the reply is read
\* (socket.timeout, ConnectionResetError), which urllib does not wrap
UrlOutcomes ==
    [kind : {"200"}, code : {200}, body : {{}}, json_ok : {TRUE}, data : VertexData]
        \cup {[kind |-> "200", code |-> 200, body |-> {}, json_ok |-> FALSE,
               data |-> [shape |-> "bad_type", body |-> {},
                         audio |-> [mime |-> "", sig |-> "none", b64ok |-> TRUE]]]}
        \cup [kind : {"http"}, code : SampleCodes, body : Bodies]
        \cup {[kind |-> "urlerror", code |-> 0, body |-> {}],
              [kind |-> "readerror", code |-> 0, body |-> {}]}

\* uniform(0, 0.25), in milliseconds
JitterMax == 250

Jitters == {0, JitterMax}

RECURSIVE Pow2(_)
Pow2(n) == IF n <= 0 THEN 1 ELSE 2 * Pow2(n - 1)

BackoffLinear(base_delay, attempt, jitter) == base_delay * (attempt + 1) + jitter

\* base_delay * (2 ** attempt) + random.uniform(0, 0.25)
Backoff(base_delay, attempt, jitter) == base_delay * Pow2(attempt) + jitter

\* what the log keeps of an outcome: its kind, the HTTP status, and for a
\* 200 reply whether the body is a JSON document
Tag(o) ==
    [kind |-> o.kind, code |-> o.code, json |-> IF o.kind = "200" THEN o.json_ok ELSE FALSE]

(***************************************************************************)
(* gemini_tts.py: _post_with_retries, one iteration of its for loop.       *)
(* The result: done with a return or a raise, or a sleep before the next   *)
(* attempt.                                                                *)
(***************************************************************************)
Done(out) == [done |-> TRUE, out |-> out, delay |-> 0]

Sleep(delay) == [done |-> FALSE, out |-> Return({}), delay |-> delay]

PostStepNoBackoff(attempt, retries, base_delay, o, jitter) ==
    CASE o.kind = "200" ->
            IF o.json_ok THEN Done(Return(o.data)) ELSE Done(Raise(Uncaught("json")))
      [] o.kind = "http" ->
            Done(Raise(TTSError("http", o.code, o.body, o.body)))
      [] o.kind = "urlerror" ->
            Done(Raise(TTSError("network", 0, {}, {})))
      [] OTHER -> Done(Raise(Uncaught("socket")))

PostStepRetryOnLast(attempt, retries, base_delay, o, jitter) ==
    CASE o.kind = "200" ->
            IF o.json_ok THEN Done(Return(o.data)) ELSE Done(Raise(Uncaught("json")))
      [] o.kind = "http" ->
            IF o.code \in RetryCodes /\ attempt <= retries
            THEN Sleep(Backoff(base_delay, attempt, jitter))
            ELSE Done(Raise(TTSError("http", o.code, o.body, o.body)))
      [] o.kind = "urlerror" ->
            IF attempt >= retries
            THEN Done(Raise(TTSError("network", 0, {}, {})))
            ELSE Sleep(Backoff(base_delay, attempt, jitter))
      [] OTHER -> Done(Raise(Uncaught("socket")))

PostStep(attempt, retries, base_delay, o, jitter) ==
    CASE o.kind = "200" ->
            IF o.json_ok THEN Done(Return(o.data)) ELSE Done(Raise(Uncaught("json")))
      [] o.kind = "http" ->
            LET should_retry == o.code \in RetryCodes /\ attempt < retries
            IN  IF ~should_retry
                THEN Done(Raise(TTSError("http", o.code, o.body, o.body)))
                ELSE Sleep(Backoff(base_delay, attempt, jitter))
      [] o.kind = "urlerror" ->
            IF attempt >= retries
            THEN Done(Raise(TTSError("network", 0, {}, {})))
            ELSE Sleep(Backoff(base_delay, attempt, jitter))
      [] OTHER -> Done(Raise(Uncaught("socket")))

\* raise GeminiTTSError("Vertex native audio request failed after retries.")
PostExhaustedError == TTSError("exhausted", 0, {}, {})

RECURSIVE PostOuts(_, _)
\* every way a _post_with_retries call started at `attempt` can end
PostOuts(attempt, retries) ==
    IF attempt > retries THEN {Raise(PostExhaustedError)}
    ELSE LET later == PostOuts(attempt + 1, retries)
         IN  UNION { LET s == PostStep(attempt, retries, 0, o, 0)
                     IN  IF s.done THEN {s.out} ELSE later : o \in UrlOutcomes }

(***************************************************************************)
(* gemini_tts.py: reply parsing, normalization, merge.                     *)
(***************************************************************************)
\* _parse_vertex_response(data): the audio, or GeminiTTSError with the JSON
\* of the reply in its message
ParseVertexResponse(data) ==
    CASE data.shape = "audio" -> Return(data.audio)
      [] data.shape = "no_audio" ->
            Raise(TTSError("no_audio", 0, data.body, {P_NO_AUDIO} \cup data.body))
      [] OTHER -> Raise(TTSError(data.shape, 0, data.body, data.body))

IsPcmMime(mime) == mime = "audio/l16"

\* the MIME _normalize_audio returns
NormalizedMime(audio) ==
    IF IsPcmMime(audio.mime) THEN "audio/wav"
    ELSE CASE audio.sig = "wav" -> "audio/wav"
           [] audio.sig = "mp3" -> "audio/mpeg"
           [] audio.sig = "ogg" -> "audio/ogg"
           [] audio.sig = "flac" -> "audio/flac"
           [] OTHER -> audio.mime

\* whether the bytes _normalize_audio returns are a RIFF/WAVE container
NormalizedIsRiff(audio) == IsPcmMime(audio.mime) \/ audio.sig = "wav"

NormalizeForMergeAnyMime(audio, chunk) ==
    IF ~audio.b64ok THEN Raise(TTSError("normalize", 0, {}, {}))
    ELSE Return([said |-> chunk, riff |-> NormalizedIsRiff(audio),
                 mime |-> NormalizedMime(audio)])

\* lines 416-423 of synthesize: the segment to append (what it says, whether
\* its bytes are a RIFF/WAVE container, its normalized MIME), or the error
\* raised
NormalizeForMerge(audio, chunk) ==
    IF ~audio.b64ok THEN Raise(TTSError("normalize", 0, {}, {}))
    ELSE IF NormalizedMime(audio) # "audio/wav" THEN Raise(TTSError("format", 0, {}, {}))
    ELSE Return([said |-> chunk, riff |-> NormalizedIsRiff(audio),
                 mime |-> NormalizedMime(audio)])

\* _merge_wav_b64(parts_b64): the audio is written as the texts spoken, in order
MergeWav(parts) ==
    IF parts = <<>> THEN Raise(TTSError("merge_empty", 0, {}, {}))
    ELSE IF Len(parts) = 1
         THEN Return([audio_data |-> <<parts[1].said>>, audio_format |-> "audio/wav"])
         ELSE IF \E i \in 1..Len(parts) : ~parts[i].riff
              THEN Raise(Uncaught("wave"))
              ELSE Return([audio_data |-> [i \in 1..Len(parts) |-> parts[i].said],
                           audio_format |-> "audio/wav"])

(***************************************************************************)
(* gemini_tts.py: synthesize(text, tone_label).                            *)
(***************************************************************************)
StrictAudioModeAlways(attempt) == attempt >= 0

\* strict_audio_mode=no_audio_attempt > 0
StrictAudioMode(attempt) == attempt > 0

\* _build_tts_payload: the script and whether the system text ends with
\* " Output AUDIO only. Do not output text."
BuildTtsPayload(chunk, strict_audio_mode) ==
    [chunk |-> chunk, audio_only |-> strict_audio_mode]

\* story_chunks[index:index + 1] = split_parts
Splice(chunks, i, parts) ==
    SubSeq(chunks, 1, i) \o parts \o SubSeq(chunks, i + 2, Len(chunks))

\* the chunk being visited (index is 0-based)
Chunk == story_chunks[index + 1]

\* one iteration of the inner for loop: the request sent and what the
\* try block yields for the transport's result r
Payload == BuildTtsPayload(Chunk, StrictAudioMode(no_audio_attempt))

TryResult(r) == IF r.ret = "return" THEN ParseVertexResponse(r.val) ELSE r

\* every way one _post_with_retries call can end, per retry budget
PostResults == [retries \in -1..(MaxRetries + 1) |-> PostOuts(0, retries)]

\* what the latest visit of a chunk has sent and received: per request the
\* payload and whether the reply was a 200 reply without audio data; how the
\* last request ended (the kind and message of its exception, or "audio");
\* the MIME _normalize_audio gave the audio of the last reply ("none" without
\* decodable audio); and how the visit ended, "open" while it goes on
Outcome(t) ==
    IF t.ret = "return" THEN [kind |-> "audio", msg |-> {}]
    ELSE [kind |-> t.val.kind, msg |-> t.val.msg]

Logged(r, ended) ==
    LET entry == [chunk |-> Payload.chunk, audio_only |-> Payload.audio_only,
                  no_audio_reply |-> Outcome(TryResult(r)).kind = "no_audio"]
    IN  [reqs |-> IF visit_log.ended = "open" THEN Append(visit_log.reqs, entry)
                  ELSE <<entry>>,
         last |-> IF ended = "open" THEN [kind |-> "none", msg |-> {}]
                  ELSE Outcome(TryResult(r)),
         mime |-> IF TryResult(r).ret = "return" /\ TryResult(r).val.b64ok
                  THEN NormalizedMime(TryResult(r).val)
                  ELSE "none",
         ended |-> ended]

\* line 388
RetriesNoAudio(exc) ==
    IsNoAudioError(exc.msg) /\ no_audio_attempt < env.no_audio_retries

CanSplitAtFloor(exc) ==
    /\ IsTokenLimitError(exc.msg)
    /\ WordCount(Chunk) >= env.min_chunk_words
    /\ Len(SplitChunkHalf(Chunk)) > 1

\* a split that does not look at the kind of the chunk error
CanSplitAnyError(exc) ==
    /\ WordCount(Chunk) > env.min_chunk_words
    /\ Len(SplitChunkHalf(Chunk)) > 1

\* lines 401-403
CanSplit(exc) ==
    /\ IsTokenLimitError(exc.msg)
    /\ WordCount(Chunk) > env.min_chunk_words
    /\ Len(SplitChunkHalf(Chunk)) > 1

Texts ==
    LET letters == <<"a", "b", "c", "d", "e", "f", "g", "h">>
        plain(n) == Join([i \in 1..n |-> <<letters[i]>>])
    IN  {plain(n) : n \in 0..MaxTextWords}
            \cup {<<" ">> \o plain(n) \o <<" ", " ">> : n \in {0, 2}}
            \cup {<<"a", " ", " ", "b">>}

NoOutcome == [kind |-> "none", code |-> 0, body |-> {}]

\* an external call: the function making it, its loop variable, the delays
\* slept, the outcomes of its requests, whether it runs or how it ended,
\* the last outcome (once ended) and what the function returned or raised
NewNet(fn, status) ==
    [fn |-> fn, status |-> status, attempt |-> 0, sleeps |-> <<>>, hist |-> <<>>,
     last |-> NoOutcome, out |-> Return({})]

IdleNet == NewNet("none", "idle")

\* no provider cascade is running
IdleOrch == [fn |-> "none", pc |-> "idle"]

Init ==
    /\ env \in [token : BOOLEAN,
                model_set : BOOLEAN,
                max_words : {1, 2, MaxTextWords},
                min_chunk_words : 0..MaxFloor,
                no_audio_retries : {-1, 0, MaxNoAudioRetries},
                retries : {MaxRetries},
                base_delay : {800}]
    /\ text \in Texts
    /\ pc = "start"
    /\ story_chunks = <<>>
    /\ index = 0
    /\ normalized_wav_parts = <<>>
    /\ no_audio_attempt = 0
    /\ result = Return({})
    /\ visit_log = [reqs |-> <<>>, last |-> [kind |-> "none", msg |-> {}],
                    mime |-> "none", ended |-> "none"]
    /\ net = IdleNet
    /\ orch = IdleOrch
    /\ OtherIdle

\* lines 315-352 with _get_access_token (lines 94-108).  env.token: the
\* service-account file exists; then creds.refresh(Request()) asks the token
\* endpoint over the network (line 107) and returns or raises; only after
\* it are the token (line 324) and the model name (line 331) looked at.
\* project is a literal, so line 329 never raises.
Start ==
    /\ pc = "start"
    /\ IF ~env.token
       THEN /\ pc' = "raised"
            /\ result' = Raise(TTSError("credentials", 0, {}, {}))
            /\ UNCHANGED <<story_chunks, net>>
       ELSE \E refreshed \in BOOLEAN :
            /\ net' = NewNet("creds.refresh", IF refreshed THEN "returned" ELSE "raised")
            /\ IF ~refreshed
               THEN /\ pc' = "raised"
                    /\ result' = Raise(Uncaught("refresh"))
                    /\ UNCHANGED story_chunks
               ELSE IF ~env.model_set
               THEN /\ pc' = "raised"
                    /\ result' = Raise(TTSError("model_not_set", 0, {}, {}))
                    /\ UNCHANGED story_chunks
               ELSE LET chunks == SplitStory(text, env.max_words)
                    IN  IF chunks = <<>>
                        THEN /\ pc' = "raised"
                             /\ result' = Raise(TTSError("no_text", 0, {}, {}))
                             /\ UNCHANGED story_chunks
                        ELSE /\ pc' = "loop"
                             /\ story_chunks' = chunks
                             /\ UNCHANGED result
    /\ UNCHANGED <<env, text, index, normalized_wav_parts, no_audio_attempt,
                   visit_log, orch, otherVars>>

\* range(no_audio_retries + 1) is empty: no request, audio_b64 stays None
\* and _normalize_audio(None, None) fails (lines 355-359, 399, 416-419)
NoAttempt ==
    /\ pc = "loop"
    /\ env.no_audio_retries < 0
    /\ pc' = "raised"
    /\ result' = Raise(TTSError("normalize", 0, {}, {}))
    /\ UNCHANGED <<env, text, story_chunks, index, normalized_wav_parts,
                   no_audio_attempt, visit_log, net, orch, otherVars>>

\* the request is answered with audio that normalizes to WAV (lines 383-385,
\* 416-425); the while loop goes on or ends
AttemptAccepted ==
    /\ pc = "loop"
    /\ no_audio_attempt <= env.no_audio_retries
    /\ \E r \in PostResults[env.retries] :
          /\ visit_log' = Logged(r, "accepted")
          /\ TryResult(r).ret = "return"
          /\ LET n == NormalizeForMerge(TryResult(r).val, Payload.chunk)
             IN  /\ n.ret = "return"
                 /\ normalized_wav_parts' = Append(normalized_wav_parts, n.val)
    /\ index' = index + 1
    /\ no_audio_attempt' = 0
    /\ pc' = IF index + 1 < Len(story_chunks) THEN "loop" ELSE "merge"
    /\ UNCHANGED <<env, text, story_chunks, result, net, orch, otherVars>>

\* the audio does not normalize to WAV (lines 416-423)
AttemptRejected ==
    /\ pc = "loop"
    /\ no_audio_attempt <= env.no_audio_retries
    /\ \E r \in PostResults[env.retries] :
          /\ visit_log' = Logged(r, "rejected")
          /\ TryResult(r).ret = "return"
          /\ LET n == NormalizeForMerge(TryResult(r).val, Payload.chunk)
             IN  /\ n.ret = "raise"
                 /\ result' = n
    /\ pc' = "raised"
    /\ UNCHANGED <<env, text, story_chunks, index, normalized_wav_parts,
                   no_audio_attempt, net, orch, otherVars>>

AttemptNoAudioSkipsChunk ==
    /\ pc = "loop"
    /\ no_audio_attempt <= env.no_audio_retries
    /\ \E r \in PostResults[env.retries] :
          /\ visit_log' = Logged(r, "open")
          /\ TryResult(r).ret = "raise"
          /\ TryResult(r).val.type = "GeminiTTSError"
          /\ RetriesNoAudio(TryResult(r).val)
    /\ no_audio_attempt' = no_audio_attempt + 1
    /\ index' = IF index + 1 < Len(story_chunks) THEN index + 1 ELSE index
    /\ UNCHANGED <<env, text, pc, story_chunks, normalized_wav_parts, result, net, orch, otherVars>>

\* lines 386-396: a no-audio error with retries left
AttemptNoAudioRetry ==
    /\ pc = "loop"
    /\ no_audio_attempt <= env.no_audio_retries
    /\ \E r \in PostResults[env.retries] :
          /\ visit_log' = Logged(r, "open")
          /\ TryResult(r).ret = "raise"
          /\ TryResult(r).val.type = "GeminiTTSError"
          /\ RetriesNoAudio(TryResult(r).val)
    /\ no_audio_attempt' = no_audio_attempt + 1
    /\ UNCHANGED <<env, text, pc, story_chunks, index, normalized_wav_parts, result, net, orch, otherVars>>

AttemptSplitNoSplice ==
    /\ pc = "loop"
    /\ no_audio_attempt <= env.no_audio_retries
    /\ \E r \in PostResults[env.retries] :
          /\ visit_log' = Logged(r, "split")
          /\ TryResult(r).ret = "raise"
          /\ TryResult(r).val.type = "GeminiTTSError"
          /\ ~RetriesNoAudio(TryResult(r).val)
          /\ CanSplit(TryResult(r).val)
    /\ no_audio_attempt' = 0
    /\ UNCHANGED <<env, text, pc, story_chunks, index, normalized_wav_parts, result, net, orch, otherVars>>

\* lines 397-413: the chunk error is a token-limit error and the chunk splits
AttemptSplit ==
    /\ pc = "loop"
    /\ no_audio_attempt <= env.no_audio_retries
    /\ \E r \in PostResults[env.retries] :
          /\ visit_log' = Logged(r, "split")
          /\ TryResult(r).ret = "raise"
          /\ TryResult(r).val.type = "GeminiTTSError"
          /\ ~RetriesNoAudio(TryResult(r).val)
          /\ CanSplit(TryResult(r).val)
    /\ story_chunks' = Splice(story_chunks, index, SplitChunkHalf(Chunk))
    /\ no_audio_attempt' = 0
    /\ UNCHANGED <<env, text, pc, index, normalized_wav_parts, result, net, orch, otherVars>>

AttemptRaiseReturnsPartial ==
    /\ pc = "loop"
    /\ no_audio_attempt <= env.no_audio_retries
    /\ \E r \in PostResults[env.retries] :
          /\ visit_log' = Logged(r, "raised")
          /\ TryResult(r).ret = "raise"
          /\ TryResult(r).val.type = "GeminiTTSError"
          /\ ~RetriesNoAudio(TryResult(r).val)
          /\ ~CanSplit(TryResult(r).val)
          /\ result' = IF normalized_wav_parts = <<>> THEN TryResult(r)
                        ELSE MergeWav(normalized_wav_parts)
    /\ pc' = IF normalized_wav_parts = <<>> THEN "raised" ELSE "done"
    /\ UNCHANGED <<env, text, story_chunks, index, normalized_wav_parts,
                   no_audio_attempt, net, orch, otherVars>>

AttemptRaiseGeneric ==
    /\ pc = "loop"
    /\ no_audio_attempt <= env.no_audio_retries
    /\ \E r \in PostResults[env.retries] :
          /\ visit_log' = Logged(r, "raised")
          /\ TryResult(r).ret = "raise"
          /\ TryResult(r).val.type = "GeminiTTSError"
          /\ ~RetriesNoAudio(TryResult(r).val)
          /\ ~CanSplit(TryResult(r).val)
          /\ result' = Raise(TTSError("chunk_failed", 0, {}, {}))
    /\ pc' = "raised"
    /\ UNCHANGED <<env, text, story_chunks, index, normalized_wav_parts,
                   no_audio_attempt, net, orch, otherVars>>

\* lines 397-414: raise chunk_error
AttemptRaise ==
    /\ pc = "loop"
    /\ no_audio_attempt <= env.no_audio_retries
    /\ \E r \in PostResults[env.retries] :
          /\ visit_log' = Logged(r, "raised")
          /\ TryResult(r).ret = "raise"
          /\ TryResult(r).val.type = "GeminiTTSError"
          /\ ~RetriesNoAudio(TryResult(r).val)
          /\ ~CanSplit(TryResult(r).val)
          /\ result' = TryResult(r)
    /\ pc' = "raised"
    /\ UNCHANGED <<env, text, story_chunks, index, normalized_wav_parts,
                   no_audio_attempt, net, orch, otherVars>>

\* an exception that is no GeminiTTSError leaves _post_with_retries and
\* synthesize (lines 268-271, 386)
AttemptUncaught ==
    /\ pc = "loop"
    /\ no_audio_attempt <= env.no_audio_retries
    /\ \E r \in PostResults[env.retries] :
          /\ visit_log' = Logged(r, "uncaught")
          /\ TryResult(r).ret = "raise"
          /\ TryResult(r).val.type = "Uncaught"
          /\ result' = TryResult(r)
    /\ pc' = "raised"
    /\ UNCHANGED <<env, text, story_chunks, index, normalized_wav_parts,
                   no_audio_attempt, net, orch, otherVars>>

\* lines 427-431
Merge ==
    /\ pc = "merge"
    /\ result' = MergeWav(normalized_wav_parts)
    /\ pc' = IF MergeWav(normalized_wav_parts).ret = "return" THEN "done" ELSE "raised"
    /\ UNCHANGED <<env, text, story_chunks, index, normalized_wav_parts,
                   no_audio_attempt, visit_log, net, orch, otherVars>>

Next ==
    \/ Start
    \/ NoAttempt
    \/ AttemptAccepted
    \/ AttemptRejected
    \/ AttemptNoAudioRetry
    \/ AttemptSplit
    \/ AttemptRaise
    \/ AttemptUncaught
    \/ Merge

Spec == Init /\ [][Next]_vars

(***************************************************************************)
(* The external calls, one at a time.                                      *)
(*   _post_with_retries     gemini_tts.py      urlopen, retry loop         *)
(*   _request               gemini_client.py   requests.post, retry loop   *)
(*   list_models            gemini_client.py   requests.get                *)
(*   vertex_list_models     vertex_models.py   urlopen                     *)
(*   _synthesize_via_rest   tts.py             requests.post               *)
(*   list_voices            tts.py             client.list_voices() in     *)
(*                                             _resolve_voice_selection    *)
(***************************************************************************)
GeminiError(kind, code, body) ==
    [type |-> "GeminiError", kind |-> kind, code |-> code, body |-> body, msg |-> body]

OtherError(type, kind, code, body) ==
    [type |-> type, kind |-> kind, code |-> code, body |-> body, msg |-> body]

\* requests.post / requests.get: a reply with a status (its JSON by what the
\* caller looks for in it), requests.exceptions.Timeout, or another
\* RequestException (requests wraps errors of connecting and of reading).
\* response.json() on a body that is not JSON raises a RequestException
\* subclass in newer releases of requests ("wrapped") and a plain ValueError
\* in older ones ("unwrapped"); no release is pinned.
ReqOutcomes ==
    [kind : {"200"}, code : {200}, body : {{}}, json_ok : {TRUE},
     data : {"content", "no_candidates", "no_parts"}]
        \cup [kind : {"200"}, code : {200}, body : {{}}, json_ok : {FALSE},
              data : {"wrapped", "unwrapped"}]
        \cup [kind : {"http"}, code : SampleCodes, body : Bodies]
        \cup {[kind |-> "timeout", code |-> 0, body |-> {}],
              [kind |-> "reqerror", code |-> 0, body |-> {}]}

\* client.list_voices(): the catalog, or any exception of the client
GrpcOutcomes ==
    {[kind |-> "200", code |-> 200, body |-> {}, json_ok |-> TRUE],
     [kind |-> "http", code |-> 503, body |-> {}],
     [kind |-> "urlerror", code |-> 0, body |-> {}]}

\* gemini_client.py: _request, one iteration of its for loop and, after a
\* reply below 400, the lines after the loop
RequestStep(attempt, retries, base_delay, o, jitter) ==
    CASE o.kind = "200" /\ o.json_ok ->
            IF o.data = "content" THEN Done(Return("text"))
            ELSE Done(Raise(GeminiError(o.data, 0, {})))
      [] o.kind = "200" /\ ~o.json_ok /\ o.data = "unwrapped" ->
            Done(Raise(Uncaught("json")))
      [] o.kind = "http" ->
            IF o.code \in RetryCodes /\ attempt < retries
            THEN Sleep(Backoff(base_delay, attempt, jitter))
            ELSE Done(Raise(GeminiError("http", o.code, o.body)))
      [] o.kind = "timeout" ->
            IF attempt >= retries
            THEN Done(Raise(GeminiError("timeout", 0, {})))
            ELSE Sleep(Backoff(base_delay, attempt, jitter))
      [] OTHER ->
            IF attempt >= retries
            THEN Done(Raise(GeminiError("network", 0, {})))
            ELSE Sleep(Backoff(base_delay, attempt, jitter))

\* the call after one request with outcome o and step result s
Stepped(o, s) ==
    [net EXCEPT !.hist = Append(@, Tag(o)),
                !.attempt = IF s.done THEN @ ELSE @ + 1,
                !.sleeps = IF s.done THEN @ ELSE Append(@, s.delay),
                !.status = IF ~s.done THEN "running"
                           ELSE IF s.out.ret = "return" THEN "returned" ELSE "raised",
                !.last = IF s.done THEN [kind |-> o.kind, code |-> o.code, body |-> o.body]
                         ELSE NoOutcome,
                !.out = IF s.done THEN s.out ELSE @]

Running(fn) == net.fn = fn /\ net.status = "running"

\* gemini_tts.py lines 266-310
PostAttempt ==
    /\ Running("_post_with_retries")
    /\ net.attempt <= env.retries
    /\ \E o \in UrlOutcomes, jitter \in Jitters :
          net' = Stepped(o, PostStep(net.attempt, env.retries, env.base_delay, o, jitter))
    /\ UNCHANGED <<env, synthVars, orch, otherVars>>

\* gemini_tts.py line 312
PostExhausted ==
    /\ Running("_post_with_retries")
    /\ net.attempt > env.retries
    /\ net' = [net EXCEPT !.status = "raised", !.out = Raise(PostExhaustedError)]
    /\ UNCHANGED <<env, synthVars, orch, otherVars>>

\* gemini_client.py lines 27-67
RequestAttempt ==
    /\ Running("_request")
    /\ net.attempt <= env.retries
    /\ \E o \in ReqOutcomes, jitter \in Jitters :
          net' = Stepped(o, RequestStep(net.attempt, env.retries, env.base_delay, o, jitter))
    /\ UNCHANGED <<env, synthVars, orch, otherVars>>

\* gemini_client.py lines 58-59
RequestExhausted ==
    /\ Running("_request")
    /\ net.attempt > env.retries
    /\ net' = [net EXCEPT !.status = "raised",
                          !.out = Raise(GeminiError("exhausted", 0, {}))]
    /\ UNCHANGED <<env, synthVars, orch, otherVars>>

\* gemini_client.py list_models: one requests.get; an exception of requests
\* is not caught
GeminiListModelsStep(o) ==
    CASE o.kind = "200" /\ o.json_ok -> Done(Return("models"))
      [] o.kind = "200" /\ ~o.json_ok -> Done(Raise(Uncaught("json")))
      [] o.kind = "http" -> Done(Raise(GeminiError("http", o.code, o.body)))
      [] OTHER -> Done(Raise(Uncaught(o.kind)))

GeminiListModels ==
    /\ Running("list_models")
    /\ \E o \in ReqOutcomes : net' = Stepped(o, GeminiListModelsStep(o))
    /\ UNCHANGED <<env, synthVars, orch, otherVars>>

\* vertex_models.py list_models: one urlopen; every failure becomes a
\* VertexModelError; without credentials no request is made
VertexListModelsStep(o) ==
    CASE o.kind = "200" /\ o.json_ok -> Done(Return("models"))
      [] o.kind = "http" -> Done(Raise(OtherError("VertexModelError", "http", o.code, o.body)))
      [] OTHER -> Done(Raise(OtherError("VertexModelError", o.kind, 0, {})))

VertexListModels ==
    /\ Running("vertex_list_models")
    /\ IF ~env.token
       THEN net' = [net EXCEPT !.status = "raised",
                       !.out = Raise(OtherError("VertexModelError", "credentials", 0, {}))]
       ELSE \E o \in UrlOutcomes : net' = Stepped(o, VertexListModelsStep(o))
    /\ UNCHANGED <<env, synthVars, orch, otherVars>>

\* tts.py _synthesize_via_rest: one requests.post; status >= 400 raises
\* RuntimeError, an exception of requests is not caught here, a reply
\* without audioContent returns None
SynthesizeViaRestStep(o) ==
    CASE o.kind = "200" /\ o.json_ok ->
            Done(Return(IF o.data = "content" THEN "audio" ELSE "None"))
      [] o.kind = "200" /\ ~o.json_ok -> Done(Raise(Uncaught("json")))
      [] o.kind = "http" -> Done(Raise(OtherError("RuntimeError", "http", o.code, o.body)))
      [] OTHER -> Done(Raise(Uncaught(o.kind)))

SynthesizeViaRest ==
    /\ Running("_synthesize_via_rest")
    /\ \E o \in ReqOutcomes : net' = Stepped(o, SynthesizeViaRestStep(o))
    /\ UNCHANGED <<env, synthVars, orch, otherVars>>

\* tts.py lines 83-88: if listing fails the requested values are used
ListVoicesStep(o) ==
    IF o.kind = "200" THEN Done(Return("catalog")) ELSE Done(Return("requested"))

ListVoices ==
    /\ Running("list_voices")
    /\ \E o \in GrpcOutcomes :
          net' = [Stepped(o, ListVoicesStep(o)) EXCEPT
                     !.status = IF o.kind = "200" THEN "returned" ELSE "degraded"]
    /\ UNCHANGED <<env, synthVars, orch, otherVars>>

RetryingFns == {"_post_with_retries", "_request"}

SingleShotFns == {"list_models", "vertex_list_models", "_synthesize_via_rest", "list_voices"}

TransportInit ==
    /\ env \in [token : BOOLEAN,
                model_set : {TRUE},
                max_words : {1},
                min_chunk_words : {0},
                no_audio_retries : {0},
                retries : -1..MaxRetries,
                base_delay : {0, 800}]
    /\ net \in {NewNet(fn, "running") : fn \in RetryingFns \cup SingleShotFns}
    /\ text = <<>>
    /\ pc = "idle"
    /\ story_chunks = <<>>
    /\ index = 0
    /\ normalized_wav_parts = <<>>
    /\ no_audio_attempt = 0
    /\ result = Return({})
    /\ visit_log = [reqs |-> <<>>, last |-> [kind |-> "none", msg |-> {}],
                    mime |-> "none", ended |-> "none"]
    /\ orch = IdleOrch
    /\ OtherIdle

TransportNext ==
    \/ PostAttempt
    \/ PostExhausted
    \/ RequestAttempt
    \/ RequestExhausted
    \/ GeminiListModels
    \/ VertexListModels
    \/ SynthesizeViaRest
    \/ ListVoices

TransportSpec == TransportInit /\ [][TransportNext]_vars

(***************************************************************************)
(* api.py: _synthesize_audio(text, tone), the provider orchestrator.       *)
(* A provider call is one step: google_synthesize (tts.py) and             *)
(* gemini_synthesize (gemini_tts.py) run to their end before the           *)
(* orchestrator goes on.  Environment values are character sequences.      *)
(***************************************************************************)
UpperCase == <<"A", "B", "C", "D", "E", "F", "G", "H", "I", "J", "K", "L", "M",
               "N", "O", "P", "Q", "R", "S", "T", "U", "V", "W", "X", "Y", "Z">>

LowerCase == <<"a", "b", "c", "d", "e", "f", "g", "h", "i", "j", "k", "l", "m",
               "n", "o", "p", "q", "r", "s", "t", "u", "v", "w", "x", "y", "z">>

\* str.lower()
Lower(str) ==
    [i \in 1..Len(str) |->
        IF \E k \in 1..26 : UpperCase[k] = str[i]
        THEN LowerCase[CHOOSE k \in 1..26 : UpperCase[k] = str[i]]
        ELSE str[i]]

\* values of TTS_PROVIDER: google (also the default), " Google ", gemini, ""
ProviderSettings ==
    {<<"g", "o", "o", "g", "l", "e">>,
     <<" ", "G", "o", "o", "g", "l", "e", " ">>,
     <<"g", "e", "m", "i", "n", "i">>,
     <<>>}

\* values of ALLOW_GEMINI_TTS_FALLBACK: unset, 1, TRUE, on, " yes", no
FlagSettings ==
    {<<>>, <<"1">>, <<"T", "R", "U", "E">>, <<"o", "n">>,
     <<" ", "y", "e", "s">>, <<"n", "o">>}

\* line 38
Provider(setting) == Lower(Strip(setting))

\* line 40
AllowGeminiFallback(setting) ==
    Lower(setting) \in {<<"1">>, <<"t", "r", "u", "e">>, <<"y", "e", "s">>, <<"o", "n">>}

IsGoogle(setting) == Provider(setting) = <<"g", "o", "o", "g", "l", "e">>

\* tts.py synthesize returns: MP3 audio with subtitles
GoogleAudio ==
    [audio_data |-> <<"google mp3">>, audio_format |-> "audio/mpeg", by |-> "google"]

\* gemini_tts.py synthesize returns: merged WAV audio
GeminiAudio ==
    [audio_data |-> <<"gemini wav">>, audio_format |-> "audio/wav", by |-> "gemini"]

\* None, as a result without audio
PyNone == [audio_data |-> <<>>, audio_format |-> "none", by |-> "nobody"]

\* how google_synthesize(text) ends: None for a blank text (tts.py lines
\* 268-271), else audio, RuntimeError after its fallbacks (line 364), or an
\* exception of the credentials or the client
GoogleResults(blank) ==
    IF blank THEN {Return(PyNone)}
    ELSE {Return(GoogleAudio),
          Raise(OtherError("RuntimeError", "google_failed", 0, {})),
          Raise(OtherError("DefaultCredentialsError", "google_credentials", 0, {}))}

\* how gemini_synthesize(text) ends: a blank text never yields audio
\* (gemini_tts.py lines 324, 346); else audio, a GeminiTTSError, or an
\* exception synthesize does not catch
GeminiResults(blank) ==
    {Raise(TTSError("credentials", 0, {}, {})), Raise(Uncaught("refresh"))}
        \cup (IF blank THEN {Raise(TTSError("no_text", 0, {}, {}))}
              ELSE {Return(GeminiAudio),
                    Raise(TTSError("http", 503, {}, {})),
                    Raise(TTSError("no_audio", 0, {}, {P_NO_AUDIO})),
                    Raise(Uncaught("socket"))})

\* a diagnostic text that quotes no exception
NoExc == [type |-> "none", kind |-> "none", code |-> 0, body |-> {}, msg |-> {}]

\* f"Google TTS: {exc}" / f"Gemini TTS: {exc}"
ErrorEntry(prefix, exc) == [prefix |-> prefix, exc |-> exc]

\* " | ".join(errors): the entries in order; "" for no entry
JoinErrors(errors) == errors

\* " | ".join(errors) or "Google TTS did not return audio."
JoinErrorsOrDefault(errors) ==
    IF JoinErrors(errors) = <<>>
    THEN <<[prefix |-> "Google TTS did not return audio.", exc |-> NoExc]>>
    ELSE JoinErrors(errors)

\* raise GeminiTTSError(diagnostic)
OrchError(diagnostic) ==
    [type |-> "GeminiTTSError", kind |-> "orchestrator", code |-> 0, body |-> {},
     msg |-> diagnostic]

\* result is truthy (lines 45, 63)
Truthy(r) == r.ret = "return" /\ r.val # PyNone

\* the orchestrator after a provider call that ended with r
Called(provider, r) ==
    [orch EXCEPT !.calls = Append(@, [provider |-> provider, ended |-> r])]

SynthIdle ==
    /\ text = <<>>
    /\ pc = "idle"
    /\ story_chunks = <<>>
    /\ index = 0
    /\ normalized_wav_parts = <<>>
    /\ no_audio_attempt = 0
    /\ result = Return({})
    /\ visit_log = [reqs |-> <<>>, last |-> [kind |-> "none", msg |-> {}],
                    mime |-> "none", ended |-> "none"]
    /\ net = IdleNet
    /\ env = [token |-> FALSE, model_set |-> TRUE, max_words |-> 1, min_chunk_words |-> 0,
              no_audio_retries |-> 0, retries |-> 0, base_delay |-> 0]

NewOrch(fn, provider, flag, blank) ==
    [fn |-> fn, pc |-> "start", tts_provider |-> provider, allow_flag |-> flag,
     blank |-> blank, calls |-> <<>>, errors |-> <<>>, out |-> Return({})]

GoogleFirstIgnoresFlag ==
    /\ orch.fn = "_synthesize_audio"
    /\ orch.pc = "start"
    /\ IsGoogle(orch.tts_provider)
    /\ \E r \in GoogleResults(orch.blank) :
          orch' = [Called("google", r) EXCEPT
                  !.errors = IF r.ret = "raise"
                             THEN Append(@, ErrorEntry("Google TTS", r.val)) ELSE @,
                  !.pc = IF Truthy(r) THEN "returned" ELSE "fallback",
                  !.out = IF Truthy(r) THEN r ELSE @]
    /\ UNCHANGED <<env, synthVars, net, otherVars>>

\* lines 42-50: Google first
GoogleFirst ==
    /\ orch.fn = "_synthesize_audio"
    /\ orch.pc = "start"
    /\ IsGoogle(orch.tts_provider)
    /\ \E r \in GoogleResults(orch.blank) :
          LET errors == IF r.ret = "raise"
                        THEN Append(orch.errors, ErrorEntry("Google TTS", r.val))
                        ELSE orch.errors
          IN  orch' = [Called("google", r) EXCEPT
                  !.errors = errors,
                  !.pc = IF Truthy(r) THEN "returned"
                         ELSE IF ~AllowGeminiFallback(orch.allow_flag) THEN "raised"
                         ELSE "fallback",
                  !.out = IF Truthy(r) THEN r
                          ELSE IF ~AllowGeminiFallback(orch.allow_flag)
                          THEN Raise(OrchError(JoinErrorsOrDefault(errors)))
                          ELSE @]
    /\ UNCHANGED <<env, synthVars, net, otherVars>>

GeminiFallbackLastErrorOnly ==
    /\ orch.fn = "_synthesize_audio"
    /\ orch.pc = "fallback"
    /\ \E r \in GeminiResults(orch.blank) :
          orch' = IF r.ret = "return"
                  THEN [Called("gemini", r) EXCEPT !.pc = "returned", !.out = r]
                  ELSE [Called("gemini", r) EXCEPT
                           !.errors = Append(@, ErrorEntry("Gemini TTS", r.val)),
                           !.pc = "raised",
                           !.out = Raise(OrchError(
                                      JoinErrors(<<ErrorEntry("Gemini TTS", r.val)>>)))]
    /\ UNCHANGED <<env, synthVars, net, otherVars>>

\* lines 51-55: Gemini after Google
GeminiFallback ==
    /\ orch.fn = "_synthesize_audio"
    /\ orch.pc = "fallback"
    /\ \E r \in GeminiResults(orch.blank) :
          LET errors == Append(orch.errors, ErrorEntry("Gemini TTS", r.val))
          IN  orch' = IF r.ret = "return"
                      THEN [Called("gemini", r) EXCEPT !.pc = "returned", !.out = r]
                      ELSE [Called("gemini", r) EXCEPT
                               !.errors = errors,
                               !.pc = "raised",
                               !.out = Raise(OrchError(JoinErrors(errors)))]
    /\ UNCHANGED <<env, synthVars, net, otherVars>>

GeminiFirstHonoursFlag ==
    /\ orch.fn = "_synthesize_audio"
    /\ orch.pc = "start"
    /\ ~IsGoogle(orch.tts_provider)
    /\ \E r \in GeminiResults(orch.blank) :
          LET errors == Append(orch.errors, ErrorEntry("Gemini TTS", r.val))
          IN  orch' = IF r.ret = "return"
                      THEN [Called("gemini", r) EXCEPT !.pc = "returned", !.out = r]
                      ELSE IF AllowGeminiFallback(orch.allow_flag)
                      THEN [Called("gemini", r) EXCEPT !.errors = errors, !.pc = "second"]
                      ELSE [Called("gemini", r) EXCEPT
                               !.errors = errors, !.pc = "raised",
                               !.out = Raise(OrchError(JoinErrors(errors)))]
    /\ UNCHANGED <<env, synthVars, net, otherVars>>

\* lines 57-60: Gemini first
GeminiFirst ==
    /\ orch.fn = "_synthesize_audio"
    /\ orch.pc = "start"
    /\ ~IsGoogle(orch.tts_provider)
    /\ \E r \in GeminiResults(orch.blank) :
          orch' = IF r.ret = "return"
                  THEN [Called("gemini", r) EXCEPT !.pc = "returned", !.out = r]
                  ELSE [Called("gemini", r) EXCEPT
                           !.errors = Append(@, ErrorEntry("Gemini TTS", r.val)),
                           !.pc = "second"]
    /\ UNCHANGED <<env, synthVars, net, otherVars>>

GoogleSecondReturnsNone ==
    /\ orch.fn = "_synthesize_audio"
    /\ orch.pc = "second"
    /\ \E r \in GoogleResults(orch.blank) :
          LET errors == IF r.ret = "raise"
                        THEN Append(orch.errors, ErrorEntry("Google TTS", r.val))
                        ELSE orch.errors
          IN  orch' = [Called("google", r) EXCEPT
                  !.errors = errors,
                  !.pc = IF r.ret = "return" THEN "returned" ELSE "raised",
                  !.out = IF r.ret = "return" THEN r
                          ELSE Raise(OrchError(JoinErrors(errors)))]
    /\ UNCHANGED <<env, synthVars, net, otherVars>>

\* lines 61-67: Google after Gemini
GoogleSecond ==
    /\ orch.fn = "_synthesize_audio"
    /\ orch.pc = "second"
    /\ \E r \in GoogleResults(orch.blank) :
          LET errors == IF r.ret = "raise"
                        THEN Append(orch.errors, ErrorEntry("Google TTS", r.val))
                        ELSE orch.errors
          IN  orch' = [Called("google", r) EXCEPT
                  !.errors = errors,
                  !.pc = IF Truthy(r) THEN "returned" ELSE "raised",
                  !.out = IF Truthy(r) THEN r ELSE Raise(OrchError(JoinErrors(errors)))]
    /\ UNCHANGED <<env, synthVars, net, otherVars>>

(***************************************************************************)
(* processor.py: _process_request, the audio part (lines 50-111), after    *)
(* run_pipeline has produced story_text.  A text is its number of words;   *)
(* an empty text and a text of whitespace only both have none.             *)
(***************************************************************************)
\* for max_words in (320, 260, 220, 180, 140)
CandidateLimits == <<320, 260, 220, 180, 140>>

\* the truncations from the shortest to the longest
TtsCandidatesShortestFirst(words) ==
    IF words = 0 THEN <<>>
    ELSE <<words>> \o SelectSeq(<<140, 180, 220, 260, 320>>,
                               LAMBDA max_words : words > max_words)

\* _tts_candidates(text), as word counts: the text, then its truncations
TtsCandidates(words) ==
    IF words = 0 THEN <<>>
    ELSE <<words>> \o SelectSeq(CandidateLimits, LAMBDA max_words : words > max_words)

\* story_text values: "", "  ", and texts of 1, 141, 200 and 321 words
Stories ==
    {[empty |-> TRUE, words |-> 0]} \cup [empty : {FALSE}, words : {0, 1, 141, 200, 321}]

\* str(exc)[:300]: the head of the message, without the quoted reply
First300(exc) == [type |-> exc.type, kind |-> exc.kind, code |-> exc.code]

\* the story_request instance of a run that has set processing (lines 32-35)
\* and whose pipeline gave story (lines 38-48), before the audio part
NewProc(flag, story) ==
    [fn |-> "_process_request", pc |-> "tts", auto_flag |-> flag, story |-> story,
     calls |-> <<>>, tts_errors |-> <<>>, cands |-> <<>>, tried |-> <<>>,
     tts_result |-> PyNone,
     status |-> "processing", error_message |-> <<>>, audio_data |-> <<>>,
     audio_format |-> "", audio_url |-> ""]

\* story_request.save() without update_fields: every field of the instance
RowOf(story_request) ==
    [status |-> story_request.status, story_text |-> story_request.story,
     error_message |-> story_request.error_message,
     audio_data |-> story_request.audio_data,
     audio_format |-> story_request.audio_format,
     audio_url |-> story_request.audio_url]

\* the row after lines 32-35 of a run whose instance is story_request
ProcessingRow(story_request) ==
    [RowOf(story_request) EXCEPT !.story_text = [empty |-> TRUE, words |-> 0]]

\* f"/media/tts/{file_name}" (processor.py lines 82-92, api.py lines 24-35)
MediaUrl(audio_format) ==
    IF audio_format = "audio/wav" THEN "/media/tts/id.wav"
    ELSE IF audio_format = "audio/mpeg" THEN "/media/tts/id.mp3"
    ELSE "/media/tts/id.bin"

\* auto_tts_enabled and story_request.story_text (line 53)
AutoTts == AllowGeminiFallback(orch.auto_flag) /\ ~orch.story.empty

\* lines 107-111: the handler of an exception exc of lines 38-106
Failed(story_request, exc) ==
    [story_request EXCEPT
        !.status = "failed",
        !.error_message = <<[text |-> "", exc |-> exc]>>,
        !.pc = "saved"]

\* lines 53-59: Google on the whole story
ProcGoogle ==
    /\ orch.fn = "_process_request"
    /\ orch.pc = "tts"
    /\ AutoTts
    /\ \E r \in GoogleResults(orch.story.words = 0) :
          orch' = [Called("google", r) EXCEPT
                  !.tts_errors = IF r.ret = "raise" THEN Append(@, r.val) ELSE @,
                  !.tts_result = IF r.ret = "return" THEN r.val ELSE PyNone,
                  !.cands = IF Truthy(r) THEN <<>> ELSE TtsCandidates(orch.story.words),
                  !.pc = IF Truthy(r) \/ TtsCandidates(orch.story.words) = <<>>
                         THEN "save" ELSE "candidates"]
    /\ UNCHANGED <<env, synthVars, net, otherVars>>

\* lines 60-67: Gemini on the next candidate; an exception that is no
\* GeminiTTSError reaches the handler of lines 107-111
ProcGemini ==
    /\ orch.fn = "_process_request"
    /\ orch.pc = "candidates"
    /\ \E r \in GeminiResults(FALSE) :
          LET called == [Called("gemini", r) EXCEPT
                            !.tried = Append(@, [words |-> Head(orch.cands),
                                                 ended |-> r])]
          IN  /\ orch' = IF r.ret = "return"
                         THEN [called EXCEPT !.tts_result = r.val, !.pc = "save"]
                         ELSE IF r.val.type = "GeminiTTSError"
                         THEN [called EXCEPT
                                  !.tts_errors = Append(@, r.val),
                                  !.cands = Tail(@),
                                  !.pc = IF Tail(orch.cands) = <<>> THEN "save"
                                         ELSE "candidates"]
                         ELSE Failed(called, r.val)
              /\ db' = IF r.ret = "raise" /\ r.val.type # "GeminiTTSError"
                       THEN RowOf(Failed(called, r.val))
                       ELSE db
    /\ UNCHANGED <<env, synthVars, net, codec, resolverVars, view>>

\* lines 69-106: store the audio (and its URL if the file was written) or
\* the error message, status completed, and save every field
ProcSave ==
    /\ orch.fn = "_process_request"
    /\ orch.pc = "save" \/ (orch.pc = "tts" /\ ~AutoTts)
    /\ \E written \in BOOLEAN :
          /\ orch.tts_result = PyNone => written
          /\ orch' = [orch EXCEPT
                !.audio_data = IF orch.tts_result # PyNone
                               THEN orch.tts_result.audio_data ELSE @,
                !.audio_format = IF orch.tts_result # PyNone
                                 THEN orch.tts_result.audio_format ELSE @,
                !.audio_url = IF orch.tts_result # PyNone /\ written
                              THEN MediaUrl(orch.tts_result.audio_format) ELSE @,
                !.error_message =
                    IF orch.tts_result # PyNone \/ ~AutoTts THEN @
                    ELSE IF orch.tts_errors # <<>>
                    THEN <<[text |-> "Audio generation failed. Last error: ",
                            exc |-> First300(orch.tts_errors[Len(orch.tts_errors)])]>>
                    ELSE <<[text |-> "Audio generation failed.", exc |-> NoExc]>>,
                !.status = "completed",
                !.pc = "saved"]
    /\ db' = RowOf(orch')
    /\ UNCHANGED <<env, synthVars, net, codec, resolverVars, view>>

\* no call of the synthesize-audio endpoint
IdleView == [fn |-> "none", pc |-> "idle"]

OrchInit ==
    /\ SynthIdle
    /\ codec = IdleCodec
    /\ catalog = {}
    /\ VOICE_CACHE = <<>>
    /\ resolving = <<>>
    /\ orch \in {NewOrch("_synthesize_audio", p, f, b) :
                    p \in ProviderSettings, f \in FlagSettings, b \in BOOLEAN}
                \cup {NewProc(f, st) : f \in FlagSettings, st \in Stories}
    /\ db = IF orch.fn = "_process_request" THEN ProcessingRow(orch) ELSE NoRow
    /\ view = IdleView

OrchNext ==
    \/ GoogleFirst
    \/ GeminiFallback
    \/ GeminiFirst
    \/ GoogleSecond
    \/ ProcGoogle
    \/ ProcGemini
    \/ ProcSave

OrchSpec == OrchInit /\ [][OrchNext]_vars

(***************************************************************************)
(* gemini_tts.py: _split_story on its own, over longer texts.              *)
(***************************************************************************)
\* word number i of a text: one letter, or the letter twice
ChunkerWord(i) ==
    LET letters == <<"a", "b", "c", "d", "e", "f", "g", "h", "i", "j">>
    IN  IF i % 2 = 1 THEN <<letters[i]>> ELSE <<letters[i], letters[i]>>

\* n words with sep between them
RECURSIVE WordsWith(_, _)
WordsWith(n, sep) ==
    IF n = 0 THEN <<>>
    ELSE IF n = 1 THEN ChunkerWord(1)
    ELSE WordsWith(n - 1, sep) \o sep \o ChunkerWord(n)

\* texts of up to MaxChunkerWords words: single spaces; blanks around;
\* runs of spaces, newlines and tabs between the words
ChunkerTexts ==
    {WordsWith(n, <<" ">>) : n \in 0..MaxChunkerWords}
        \cup {<<" ", "\n">> \o WordsWith(n, <<" ">>) \o <<"\t", " ">> : n \in {0, 1, 3}}
        \cup {WordsWith(n, <<" ", "\n", " ">>) : n \in {2, 3, 5}}

ChunkerInit ==
    /\ env \in [token : {TRUE}, model_set : {TRUE}, max_words : 1..MaxLimit,
                min_chunk_words : {0}, no_audio_retries : {0}, retries : {0},
                base_delay : {0}]
    /\ text \in ChunkerTexts
    /\ pc = "chunker"
    /\ story_chunks = <<>>
    /\ index = 0
    /\ normalized_wav_parts = <<>>
    /\ no_audio_attempt = 0
    /\ result = Return({})
    /\ visit_log = [reqs |-> <<>>, last |-> [kind |-> "none", msg |-> {}],
                    mime |-> "none", ended |-> "none"]
    /\ net = IdleNet
    /\ orch = IdleOrch
    /\ OtherIdle

\* story_chunks = _split_story(text, max_words=max_words)
SplitStoryCall ==
    /\ pc = "chunker"
    /\ story_chunks' = SplitStory(text, env.max_words)
    /\ pc' = "chunked"
    /\ UNCHANGED <<env, text, index, normalized_wav_parts, no_audio_attempt, result,
                   visit_log, net, orch, otherVars>>

ChunkerNext == SplitStoryCall

ChunkerSpec == ChunkerInit /\ [][ChunkerNext]_vars

(***************************************************************************)
(* Properties of the external calls.                                       *)
(***************************************************************************)
Finished == net.status \in {"returned", "raised", "degraded"}

Hist == net.hist

\* the statuses the retry contract names
ContractRetryable == {408, 409, 425, 429, 500, 502, 503, 504}

RetryableStatus(tag) == tag.kind = "http" /\ tag.code \in ContractRetryable

NetworkKinds == {"urlerror", "readerror", "timeout", "reqerror"}

TypedErrors == {"GeminiTTSError", "GeminiError"}

\* the requests so far: k retryable statuses, then a 200
RetriedThen200(k) ==
    /\ Len(Hist) = k + 1
    /\ \A i \in 1..k : RetryableStatus(Hist[i])
    /\ Hist[k + 1].kind = "200"

BackoffBounds ==
    \A a \in 1..Len(net.sleeps) :
        /\ net.sleeps[a] >= env.base_delay * Pow2(a - 1)
        /\ net.sleeps[a] <= env.base_delay * Pow2(a - 1) + 250

\* C4 as claimed: k <= R retryable statuses and then a 200 make the call
\* succeed after k + 1 requests and k sleeps within the backoff bounds, and
\* no call issues more than R + 1 requests.
C4_Original ==
    net.fn = "_post_with_retries" =>
        /\ Len(Hist) <= Max(env.retries + 1, 0)
        /\ BackoffBounds
        /\ \A k \in 0..env.retries :
              Finished /\ RetriedThen200(k) =>
                  net.status = "returned" /\ Len(net.sleeps) = k

\* C4: for one _post_with_retries call with budget R, k <= R retryable
\* statuses and then a 200 reply whose body is a JSON document make the call
\* return that document after exactly k + 1 requests and k sleeps; while the
\* statuses come the call has slept once per request; the sleep after
\* 0-based attempt a is at least base_delay * 2^a and at most 250 ms more;
\* no call issues more than R + 1 requests.
C4_RetryBudget ==
    net.fn = "_post_with_retries" =>
        /\ Len(Hist) <= Max(env.retries + 1, 0)
        /\ BackoffBounds
        /\ \A k \in 0..env.retries :
              /\ Finished /\ RetriedThen200(k) /\ Hist[k + 1].json =>
                    /\ net.status = "returned"
                    /\ net.out.ret = "return"
                    /\ Len(net.sleeps) = k
              /\ ~Finished /\ Len(Hist) = k /\ (\A i \in 1..k : RetryableStatus(Hist[i])) =>
                    Len(net.sleeps) = k /\ net.attempt = k

\* 503, 503, 503, 200: returned after 3 sleeps
C4_Witness ==
    /\ net.fn = "_post_with_retries"
    /\ net.status = "returned"
    /\ RetriedThen200(3)
    /\ \A i \in 1..3 : Hist[i].code = 503
    /\ Len(net.sleeps) = 3
    /\ env.base_delay = 800

\* C5: in both retry loops a call goes on after an HTTP status only if the
\* status is retryable and the attempt is not the last permitted one; a
\* non-retryable status, or a retryable one on the attempt with index
\* max_retries, ends the call at once, with no sleep after it, in a typed
\* error that carries the status and the response body.
C5_FailsAtOnce ==
    net.fn \in RetryingFns =>
        /\ \A i \in 1..(Len(Hist) - 1) :
              /\ Hist[i].kind = "http" => RetryableStatus(Hist[i])
              /\ i <= env.retries
        /\ ~Finished /\ Hist # <<>> /\ Hist[Len(Hist)].kind = "http" =>
              RetryableStatus(Hist[Len(Hist)]) /\ Len(Hist) <= env.retries
        /\ Finished /\ net.last.kind = "http" =>
              /\ net.last.code \notin ContractRetryable \/ Len(Hist) = env.retries + 1
              /\ net.status = "raised"
              /\ net.out.ret = "raise"
              /\ net.out.val.type \in TypedErrors
              /\ net.out.val.code = net.last.code
              /\ net.out.val.body = net.last.body
              /\ Len(net.sleeps) = Len(Hist) - 1

\* a 503 with a body on the last permitted attempt, after three retries
C5_Witness ==
    /\ net.fn = "_post_with_retries"
    /\ env.retries = 3
    /\ Len(Hist) = 4
    /\ net.status = "raised"
    /\ net.last.kind = "http"
    /\ net.last.code = 503
    /\ net.last.body # {}
    /\ Len(net.sleeps) = 3

\* C6 as claimed: in both retry loops a network-level error, raised while
\* connecting or while the reply is read, ends the call only on the last
\* permitted attempt, and then in a typed error; on an earlier attempt it is
\* followed by a sleep and another attempt.
C6_NetworkErrorsRetried ==
    net.fn \in RetryingFns =>
        /\ Finished /\ net.last.kind \in NetworkKinds =>
              /\ Len(Hist) = env.retries + 1
              /\ net.status = "raised"
              /\ net.out.val.type \in TypedErrors

\* a retryable failure: a retryable status or a connection error
Transient(tag) == RetryableStatus(tag) \/ tag.kind \in {"urlerror", "timeout", "reqerror"}

\* C7 as claimed: whichever external call it is, a first retryable failure
\* with retry budget left is followed by a backoff and a second request.
C7_Original ==
    Finished /\ Hist # <<>> /\ Transient(Hist[1]) /\ env.retries >= 1 =>
        Len(Hist) >= 2 /\ Len(net.sleeps) >= 1

\* C7: text generation (_request) and Gemini TTS (_post_with_retries) follow
\* a first retryable failure (a retryable status, a connection error or a
\* timeout of requests, a URLError) with a backoff and a second request when
\* the budget allows one; Google REST synthesis and the two model listings
\* make one request and raise at once when it fails, and voice listing makes
\* one request and on failure goes on at once with the requested values.
C7_WhoRetries ==
    /\ net.fn \in RetryingFns /\ Finished /\ Hist # <<>> /\ Transient(Hist[1])
            /\ env.retries >= 1 =>
          /\ Len(Hist) >= 2
          /\ Len(net.sleeps) >= 1
          /\ net.sleeps[1] >= env.base_delay
    /\ net.fn \in SingleShotFns =>
          /\ Len(Hist) <= 1
          /\ net.sleeps = <<>>
          /\ Finished /\ Hist # <<>> /\ Hist[1].kind # "200" =>
                IF net.fn = "list_voices"
                THEN net.status = "degraded" /\ net.out = Return("requested")
                ELSE net.status = "raised" /\ net.out.ret = "raise"

\* text generation answered 503 and then 200: one sleep, two requests
C7_Witness ==
    /\ net.fn = "_request"
    /\ net.status = "returned"
    /\ Len(Hist) = 2
    /\ Hist[1].kind = "http"
    /\ Hist[1].code = 503
    /\ Len(net.sleeps) = 1
    /\ env.base_delay = 800

(***************************************************************************)
(* Properties of synthesize.                                               *)
(***************************************************************************)
Terminal == pc \in {"done", "raised"}

Words == PySplit(text)

InitialChunks == SplitStory(text, env.max_words)

\* a step that changes the work list
ListChanges == story_chunks # <<>> /\ story_chunks' # story_chunks

OrderingInv ==
    story_chunks # <<>> =>
        /\ WordsOf(story_chunks) = Words
        /\ index \in 0..Len(story_chunks)
        /\ Len(normalized_wav_parts) = index
        /\ \A i \in 1..index : normalized_wav_parts[i].said = story_chunks[i]

SplitInPlace ==
    ListChanges =>
        /\ index' = index
        /\ normalized_wav_parts' = normalized_wav_parts
        /\ Len(story_chunks') = Len(story_chunks) + 1
        /\ SubSeq(story_chunks', 1, index) = SubSeq(story_chunks, 1, index)
        /\ SubSeq(story_chunks', index + 3, Len(story_chunks'))
              = SubSeq(story_chunks, index + 2, Len(story_chunks))
        /\ PySplit(story_chunks'[index + 1]) # <<>>
        /\ PySplit(story_chunks'[index + 2]) # <<>>
        /\ PySplit(story_chunks'[index + 1]) \o PySplit(story_chunks'[index + 2])
              = PySplit(story_chunks[index + 1])
        /\ pc' = "loop"
        /\ no_audio_attempt' = 0

\* C1: in every state the words of the work list, in list order, are the
\* words of the input text, the number of collected segments is index
\* (0 <= index <= number of chunks) and segment i is the audio of chunk i; a
\* step that changes the work list replaces the chunk at index by its two
\* non-empty halves, keeps everything before and after it and the collected
\* segments, and leaves index on the first half.
C1_OrderPreserved == []OrderingInv /\ [][SplitInPlace]_vars

\* a request completed after a split, with segments on both sides of it
C1_Witness ==
    /\ pc = "done"
    /\ Len(story_chunks) > Len(InitialChunks)
    /\ Len(InitialChunks) >= 2
    /\ index >= 3

\* C2: a failed synthesize holds an exception and no audio, whatever was
\* collected before; audio is returned only in the final state, when every
\* chunk of the work list has given exactly one segment, in list order.
C2_NoPartialAudio ==
    /\ pc = "raised" => result.ret = "raise"
    /\ pc \in {"start", "loop", "merge"} => result = Return({})
    /\ pc = "done" =>
          /\ result.ret = "return"
          /\ index = Len(story_chunks)
          /\ Len(normalized_wav_parts) = Len(story_chunks)
          /\ result.val.audio_data = story_chunks

\* a failure at a later chunk, after segments were collected
C2_Witness ==
    /\ pc = "raised"
    /\ result.val.type = "GeminiTTSError"
    /\ Len(normalized_wav_parts) >= 2
    /\ index < Len(story_chunks)

AttemptsPerVisit == Max(env.no_audio_retries + 1, 0)

RECURSIVE VisitBudget(_, _)
\* an upper bound on the visits the chunks after position i can still take:
\* a chunk of w words is visited at most 2w - 1 times, splits included
VisitBudget(chunks, i) ==
    IF i >= Len(chunks) THEN 0
    ELSE (2 * WordCount(chunks[i + 1]) - 1) + VisitBudget(chunks, i + 1)

\* twice the _post_with_retries calls synthesize can still make, plus its
\* remaining bookkeeping steps
Measure ==
    CASE pc = "start" -> 4 * Len(Words) * AttemptsPerVisit + 3
      [] pc = "loop" ->
            2 * (VisitBudget(story_chunks, index) * AttemptsPerVisit - no_audio_attempt) + 2
      [] pc = "merge" -> 1
      [] OTHER -> 0

SplitShrinks ==
    ListChanges =>
        /\ WordCount(story_chunks[index + 1]) > env.min_chunk_words
        /\ WordCount(story_chunks[index + 1]) >= 2
        /\ WordCount(story_chunks'[index + 1]) < WordCount(story_chunks[index + 1])
        /\ WordCount(story_chunks'[index + 2]) < WordCount(story_chunks[index + 1])

\* C3: synthesize terminates whatever the provider answers: every step
\* strictly decreases a natural number that bounds the requests still to be
\* made, so only finitely many steps can follow one another; until a result is
\* returned or a failure raised a step is always possible; and a split
\* happens only on a chunk above the floor with at least 2 words and yields
\* two strictly smaller chunks.
C3_Terminates ==
    /\ [][Measure' < Measure /\ Measure' >= 0 /\ SplitShrinks]_vars
    /\ [](Terminal \/ ENABLED Next)

\* the end of a run in which every request was answered token-limit: the
\* chunk was split down to a piece that cannot be split and the error raised
C3_Witness ==
    /\ pc = "raised"
    /\ IsTokenLimitError(result.val.msg)
    /\ index = 0
    /\ Len(normalized_wav_parts) = 0
    /\ Len(story_chunks) >= Len(InitialChunks) + 2

Reqs == visit_log.reqs

VisitEnded == visit_log.ended \in {"accepted", "rejected", "split", "raised", "uncaught"}

\* the chunk of the latest visit
Visited == Reqs[1].chunk

\* C8: the requests of one visit of a chunk number at most
\* no_audio_retries + 1 and are all for that chunk; the first carries no
\* audio-only directive and every later one carries it; a visit that goes on
\* is at its chunk with no_audio_attempt requests sent, a new visit starts at
\* attempt 0, and a visit ends on a reply without audio data only when its
\* no_audio_retries + 1 requests are used up.
C8_NoAudioRecovery ==
    /\ Len(Reqs) <= AttemptsPerVisit
    /\ \A i \in 1..Len(Reqs) :
          /\ Reqs[i].audio_only <=> i > 1
          /\ Reqs[i].chunk = Visited
    /\ pc = "loop" /\ visit_log.ended = "open" =>
          /\ Visited = Chunk
          /\ no_audio_attempt = Len(Reqs)
          /\ no_audio_attempt >= 1
    /\ pc = "loop" /\ visit_log.ended # "open" => no_audio_attempt = 0
    /\ VisitEnded /\ Reqs[Len(Reqs)].no_audio_reply => Len(Reqs) = env.no_audio_retries + 1

\* a half produced by a split was accepted on its third request
C8_Witness ==
    /\ visit_log.ended = "accepted"
    /\ Len(Reqs) = 3
    /\ Len(story_chunks) > Len(InitialChunks)
    /\ WordCount(Visited) < Len(Words)
    /\ Len(InitialChunks) = 1

\* every request of the latest visit got a 200 reply without audio data, and
\* the visit used all its no_audio_retries + 1 requests
AllNoAudio ==
    /\ VisitEnded
    /\ env.no_audio_retries >= 0
    /\ Len(Reqs) = env.no_audio_retries + 1
    /\ \A i \in 1..Len(Reqs) : Reqs[i].no_audio_reply

RaisedNoAudio ==
    /\ pc = "raised"
    /\ result.ret = "raise"
    /\ result.val.type = "GeminiTTSError"
    /\ result.val.kind = "no_audio"
    /\ IsNoAudioError(result.val.msg)

\* C9 as claimed: no-audio replies to all no_audio_retries + 1 requests of a
\* chunk make the request fail with the no-audio failure.
C9_Original == AllNoAudio => RaisedNoAudio

\* C9: no-audio replies to all no_audio_retries + 1 requests of a chunk make
\* the request fail with the no-audio failure of the last reply, unless that
\* failure's message (which quotes the reply) also matches the token-limit
\* pattern and the chunk has more than min_chunk_words words and at least 2:
\* then the chunk is split and the request goes on.
C9_NoAudioExhausted ==
    AllNoAudio =>
        IF /\ IsTokenLimitError(visit_log.last.msg)
           /\ WordCount(Visited) > env.min_chunk_words
           /\ WordCount(Visited) >= 2
        THEN visit_log.ended = "split" /\ pc = "loop"
        ELSE RaisedNoAudio /\ result.val.msg = visit_log.last.msg

\* three no-audio replies in a row (the default budget is two retries)
C9_Witness ==
    /\ AllNoAudio
    /\ Len(Reqs) = 3
    /\ RaisedNoAudio
    /\ index >= 1

\* the latest visit ended with a token-limit error as its chunk error
TokenLimitEnd ==
    /\ visit_log.ended \in {"split", "raised"}
    /\ IsTokenLimitError(visit_log.last.msg)

\* the two halves of the visited chunk are at its position and are next
HalvesInPlace ==
    LET words == PySplit(Visited)
        mid == Len(words) \div 2
    IN  /\ pc = "loop"
        /\ no_audio_attempt = 0
        /\ index + 2 <= Len(story_chunks)
        /\ PySplit(story_chunks[index + 1]) = SubSeq(words, 1, mid)
        /\ PySplit(story_chunks[index + 2]) = SubSeq(words, mid + 1, Len(words))

RaisedChunkError ==
    /\ pc = "raised"
    /\ result.ret = "raise"
    /\ result.val.type = "GeminiTTSError"
    /\ result.val.kind = visit_log.last.kind
    /\ result.val.msg = visit_log.last.msg

\* C10 as claimed: after a token-limit error the chunk is split and the
\* request goes on iff the chunk has more than min_chunk_words words.
C10_Original ==
    TokenLimitEnd =>
        (visit_log.ended = "split" <=> WordCount(Visited) > env.min_chunk_words)

\* C10: when a visit ends with a token-limit error, the chunk is replaced in
\* place by its two halves (floor(k/2) and the rest of its k words) and the
\* request goes on iff the chunk has more than min_chunk_words words and at
\* least 2 words; otherwise the token-limit error is raised and ends the
\* request.
C10_TokenLimitFloor ==
    TokenLimitEnd =>
        /\ visit_log.ended = "split" <=>
              (WordCount(Visited) > env.min_chunk_words /\ WordCount(Visited) >= 2)
        /\ visit_log.ended = "split" => HalvesInPlace
        /\ visit_log.ended = "raised" => RaisedChunkError

\* a 4-word chunk above a floor of 2 was split 2/2, both halves succeeded
\* and two segments were merged
C10_Witness ==
    /\ pc = "done"
    /\ Len(Words) = 4
    /\ env.min_chunk_words = 2
    /\ Len(InitialChunks) = 1
    /\ Len(story_chunks) = 2
    /\ WordCount(story_chunks[1]) = 2
    /\ WordCount(story_chunks[2]) = 2
    /\ Len(result.val.audio_data) = 2

(***************************************************************************)
(* C11: one request at a time, chunk by chunk.                             *)
(***************************************************************************)
\* a step that sends a request (one blocking _post_with_retries call)
SendsRequest == visit_log' # visit_log

\* the requests the step adds to the log of the visit
NewRequests ==
    IF visit_log.ended = "open"
    THEN SubSeq(visit_log'.reqs, Len(visit_log.reqs) + 1, Len(visit_log'.reqs))
    ELSE visit_log'.reqs

SequentialStep ==
    /\ SendsRequest =>
          /\ pc = "loop"
          /\ Len(NewRequests) = 1
          /\ NewRequests[1].chunk = story_chunks[index + 1]
          /\ Len(normalized_wav_parts) = index
          /\ \A j \in 1..index : normalized_wav_parts[j].said = story_chunks[j]
    /\ index' \in {index, index + 1}
    /\ index' = index + 1 =>
          /\ SendsRequest
          /\ visit_log'.ended = "accepted"
          /\ Len(normalized_wav_parts') = index + 1
          /\ normalized_wav_parts'[index + 1].said = story_chunks[index + 1]

\* C11: chunk synthesis is strictly sequential. Every step of synthesize
\* sends at most one request, a blocking call that is over when the step is;
\* a request is always for the chunk at the index, and is sent only when
\* every chunk before the index has yielded an accepted WAV segment; the
\* index moves by one, and only with the acceptance of the current chunk.
C11_Sequential == [][SequentialStep]_vars

\* the second chunk is being requested again after the first was accepted
C11_Witness ==
    /\ pc = "loop"
    /\ index = 1
    /\ Len(normalized_wav_parts) = 1
    /\ visit_log.ended = "open"
    /\ visit_log.reqs[Len(visit_log.reqs)].chunk = story_chunks[2]

(***************************************************************************)
(* C12: only WAV reaches the merger.                                       *)
(***************************************************************************)
\* C12: every segment collected for the merger has normalized MIME
\* audio/wav; when the audio of a reply normalizes to any other MIME the
\* call has failed at that chunk with the format error, the segments of the
\* earlier chunks are dropped with it, and nothing more is requested.
C12_OnlyWavMerged ==
    /\ \A j \in 1..Len(normalized_wav_parts) : normalized_wav_parts[j].mime = "audio/wav"
    /\ visit_log.mime \notin {"none", "audio/wav"} =>
          /\ pc = "raised"
          /\ visit_log.ended = "rejected"
          /\ result = Raise(TTSError("format", 0, {}, {}))
          /\ visit_log.reqs[Len(visit_log.reqs)].chunk = story_chunks[index + 1]
          /\ Len(normalized_wav_parts) = index
          /\ ~ENABLED Next

\* the second chunk came back as MP3 after the first was accepted
C12_Witness ==
    /\ visit_log.mime = "audio/mpeg"
    /\ pc = "raised"
    /\ index = 1
    /\ Len(normalized_wav_parts) = 1
    /\ result.val.kind = "format"

(***************************************************************************)
(* Properties of the provider orchestrator.                                *)
(***************************************************************************)
InSynthesizeAudio == orch.fn = "_synthesize_audio"

OrchEnded == orch.pc \in {"returned", "raised"}

\* TTS_PROVIDER selects Google
PrimaryGoogle ==
    orch.tts_provider \in {<<"g", "o", "o", "g", "l", "e">>,
                           <<" ", "G", "o", "o", "g", "l", "e", " ">>}

\* ALLOW_GEMINI_TTS_FALLBACK enables the fallback
FlagEnabled == orch.allow_flag \in {<<"1">>, <<"T", "R", "U", "E">>, <<"o", "n">>}

\* call number i returned audio
GaveAudio(i) ==
    /\ orch.calls[i].ended.ret = "return"
    /\ orch.calls[i].ended.val.audio_data # <<>>

\* C13: with Google as primary the first call is Google's; Gemini is called
\* only after a Google call that raised or returned no audio, only with the
\* fallback flag enabled, and then exactly once; with the flag disabled the
\* Google failure is raised at once; when Google returns audio it is the
\* result and Gemini is not called.
C13_GooglePrimary ==
    InSynthesizeAudio /\ PrimaryGoogle =>
        /\ Len(orch.calls) <= 2
        /\ orch.calls # <<>> => orch.calls[1].provider = "google"
        /\ Len(orch.calls) = 2 =>
              /\ orch.calls[2].provider = "gemini"
              /\ ~GaveAudio(1)
              /\ FlagEnabled
        /\ OrchEnded /\ GaveAudio(1) =>
              /\ Len(orch.calls) = 1
              /\ orch.pc = "returned"
              /\ orch.out = orch.calls[1].ended
        /\ OrchEnded /\ ~GaveAudio(1) /\ ~FlagEnabled =>
              Len(orch.calls) = 1 /\ orch.pc = "raised"
        /\ OrchEnded /\ ~GaveAudio(1) /\ FlagEnabled => Len(orch.calls) = 2
        /\ orch.calls # <<>> /\ ~OrchEnded => Len(orch.calls) = 1 /\ ~GaveAudio(1) /\ FlagEnabled

\* Google raised, the flag is on, Gemini gave the audio
C13_Witness ==
    /\ InSynthesizeAudio
    /\ PrimaryGoogle
    /\ FlagEnabled
    /\ orch.pc = "returned"
    /\ Len(orch.calls) = 2
    /\ orch.calls[1].ended.ret = "raise"
    /\ orch.out.val.by = "gemini"

\* C14: with any other primary the first call is Gemini's; Google is called
\* if and only if Gemini failed, whatever the fallback flag says, and at
\* most once; when Gemini returns audio it is the result.
C14_GeminiPrimary ==
    InSynthesizeAudio /\ ~PrimaryGoogle =>
        /\ Len(orch.calls) <= 2
        /\ orch.calls # <<>> => orch.calls[1].provider = "gemini"
        /\ Len(orch.calls) = 2 =>
              orch.calls[2].provider = "google" /\ orch.calls[1].ended.ret = "raise"
        /\ OrchEnded /\ orch.calls[1].ended.ret = "raise" => Len(orch.calls) = 2
        /\ OrchEnded /\ orch.calls[1].ended.ret = "return" =>
              /\ Len(orch.calls) = 1
              /\ orch.pc = "returned"
              /\ orch.out = orch.calls[1].ended
        /\ orch.calls # <<>> /\ ~OrchEnded =>
              Len(orch.calls) = 1 /\ orch.calls[1].ended.ret = "raise"

\* Gemini failed, the flag is unset, Google gave the audio
C14_Witness ==
    /\ InSynthesizeAudio
    /\ ~PrimaryGoogle
    /\ orch.allow_flag = <<>>
    /\ orch.pc = "returned"
    /\ Len(orch.calls) = 2
    /\ orch.out.val.by = "google"

\* C15: _synthesize_audio ends either returning the complete result of its
\* last provider call (non-empty audio_data with its audio_format, every
\* earlier call having given no audio), or raising one GeminiTTSError; it
\* never returns None or an empty result.
C15_AllOrNothing ==
    InSynthesizeAudio /\ OrchEnded =>
        \/ /\ orch.pc = "returned"
           /\ orch.out.ret = "return"
           /\ orch.out.val.audio_data # <<>>
           /\ orch.out.val.audio_format \in {"audio/wav", "audio/mpeg"}
           /\ orch.out = orch.calls[Len(orch.calls)].ended
           /\ orch.out.val.by = orch.calls[Len(orch.calls)].provider
           /\ \A i \in 1..(Len(orch.calls) - 1) : ~GaveAudio(i)
        \/ /\ orch.pc = "raised"
           /\ orch.out.ret = "raise"
           /\ orch.out.val.type = "GeminiTTSError"
           /\ \A i \in 1..Len(orch.calls) : ~GaveAudio(i)

\* blank text: Gemini failed, Google returned None, and the call raised
C15_Witness ==
    /\ InSynthesizeAudio
    /\ orch.pc = "raised"
    /\ Len(orch.calls) = 2
    /\ orch.calls[2].ended = Return(PyNone)
    /\ orch.out.val.type = "GeminiTTSError"

(***************************************************************************)
(* C16: what the diagnostic of a failed cascade tells.                     *)
(***************************************************************************)
\* the exceptions of the provider calls that raised, in call order
RECURSIVE RaisedIn(_)
RaisedIn(calls) ==
    IF calls = <<>> THEN <<>>
    ELSE IF Head(calls).ended.ret = "raise"
         THEN <<Head(calls).ended.val>> \o RaisedIn(Tail(calls))
         ELSE RaisedIn(Tail(calls))

\* the providers whose calls raised, in call order
RECURSIVE RaisedBy(_)
RaisedBy(calls) ==
    IF calls = <<>> THEN <<>>
    ELSE IF Head(calls).ended.ret = "raise"
         THEN <<Head(calls).provider>> \o RaisedBy(Tail(calls))
         ELSE RaisedBy(Tail(calls))

Heads(excs) == [i \in 1..Len(excs) |-> First300(excs[i])]

\* the cascade has failed, and the diagnostic it reports
CascadeFailed ==
    IF orch.fn = "_synthesize_audio" THEN orch.pc = "raised"
    ELSE /\ orch.fn = "_process_request"
         /\ orch.pc = "saved"
         /\ orch.calls # <<>>
         /\ orch.audio_data = <<>>

Diagnostic ==
    IF orch.fn = "_synthesize_audio" THEN orch.out.val.msg ELSE orch.error_message

\* the provider messages a diagnostic quotes
Quoted(diagnostic) ==
    LET quoting == SelectSeq(diagnostic, LAMBDA e : e.exc # NoExc)
    IN  [i \in 1..Len(quoting) |-> First300(quoting[i].exc)]

\* C16 as claimed: on every path that tries providers in sequence, the API
\* orchestrator and the processor's cascade alike, the diagnostic of a
\* failure quotes (at least the head of) the message of every provider call
\* that failed, in the order of the calls.
C16_Original == CascadeFailed => Quoted(Diagnostic) = Heads(RaisedIn(orch.calls))

PrefixOf(provider) == IF provider = "google" THEN "Google TTS" ELSE "Gemini TTS"

\* C16: when _synthesize_audio fails, its diagnostic is the messages of the
\* provider calls that raised, whole and in call order, each after the name
\* of its provider; a Google call that returned nothing adds no message, and
\* when no call raised the diagnostic is "Google TTS did not return audio.".
\* When the processor's cascade fails, the stored message quotes only the
\* head of the last message collected ("Audio generation failed." alone if
\* none was), or, when a Gemini call raised something other than a
\* GeminiTTSError, that exception's message alone with status failed.
C16_Diagnostics ==
    CascadeFailed =>
        IF orch.fn = "_synthesize_audio"
        THEN LET raised == RaisedIn(orch.calls)
                 by == RaisedBy(orch.calls)
             IN  IF raised = <<>>
                 THEN Diagnostic = <<[prefix |-> "Google TTS did not return audio.",
                                      exc |-> NoExc]>>
                 ELSE Diagnostic = [i \in 1..Len(raised) |->
                                        [prefix |-> PrefixOf(by[i]), exc |-> raised[i]]]
        ELSE LET raised == RaisedIn(orch.calls)
                 last == raised[Len(raised)]
             IN  /\ Len(Diagnostic) = 1
                 /\ IF raised = <<>> THEN Diagnostic[1].exc = NoExc
                    ELSE IF last.type # "Uncaught"
                    THEN orch.status = "completed" /\ Diagnostic[1].exc = First300(last)
                    ELSE orch.status = "failed" /\ Diagnostic[1].exc = last

\* the processor tried Google and two Gemini candidates, all failed, and
\* the stored message quotes the last one only
C16_Witness ==
    /\ orch.fn = "_process_request"
    /\ orch.pc = "saved"
    /\ orch.status = "completed"
    /\ Len(orch.calls) = 3
    /\ Len(orch.tts_errors) = 3
    /\ orch.tts_errors[3] # orch.tts_errors[2]
    /\ Len(orch.error_message) = 1

(***************************************************************************)
(* C17: missing credentials or configuration.                              *)
(***************************************************************************)
\* C17 as claimed: when synthesize fails because the credentials or the
\* model name are missing, no network call has been made before: no token
\* refresh, no synthesis request.
C17_FailsBeforeNetwork ==
    pc = "raised" /\ result.val.kind \in {"credentials", "model_not_set"} =>
        net = IdleNet /\ visit_log.reqs = <<>>

(***************************************************************************)
(* Properties of the chunker.  Words are counted on the characters: a word *)
(* starts at a non-blank character that follows a blank or nothing.        *)
(***************************************************************************)
Blank(c) == c \in {" ", "\n", "\t"}

NumWords(t) ==
    Cardinality({i \in 1..Len(t) : ~Blank(t[i]) /\ (i = 1 \/ Blank(t[i - 1]))})

\* the characters of t that are not blank
NonBlank(t) == SelectSeq(t, LAMBDA c : ~Blank(c))

RECURSIVE Concat(_)
Concat(ss) == IF ss = <<>> THEN <<>> ELSE Head(ss) \o Concat(Tail(ss))

RECURSIVE TotalWords(_)
TotalWords(chunks) ==
    IF chunks = <<>> THEN 0 ELSE NumWords(Head(chunks)) + TotalWords(Tail(chunks))

\* c is t without its leading and trailing blanks
TrimOf(t, c) ==
    /\ c # <<>>
    /\ ~Blank(c[1])
    /\ ~Blank(c[Len(c)])
    /\ \E i \in 0..Len(t) :
          /\ i + Len(c) <= Len(t)
          /\ SubSeq(t, i + 1, i + Len(c)) = c
          /\ \A j \in 1..Len(t) : (j <= i \/ j > i + Len(c)) => Blank(t[j])

Chunked == pc = "chunked"

\* C18 as claimed: any text with at most max_words words comes back as
\* exactly one chunk, the trimmed text.
C18_Original ==
    Chunked /\ NumWords(text) <= env.max_words =>
        Len(story_chunks) = 1 /\ TrimOf(text, story_chunks[1])

\* C18: a text with at least one word and at most max_words words comes
\* back as exactly one chunk, the text without its leading and trailing
\* whitespace (the whitespace between its words is kept); a text without
\* words comes back as no chunk at all.
C18_OneChunk ==
    Chunked =>
        /\ NumWords(text) >= 1 /\ NumWords(text) <= env.max_words =>
              Len(story_chunks) = 1 /\ TrimOf(text, story_chunks[1])
        /\ NumWords(text) = 0 => story_chunks = <<>>

\* three words between blanks, limit three: one chunk, shorter than the text
C18_Witness ==
    /\ Chunked
    /\ NumWords(text) = 3
    /\ env.max_words = 3
    /\ Len(story_chunks) = 1
    /\ Len(story_chunks[1]) < Len(text)

\* C19: a text of N words with limit L >= 1 and N > L comes back as
\* ceil(N / L) chunks; every chunk but the last has exactly L words and the
\* last has between 1 and L; the chunks hold N words in all and their
\* non-blank characters, in order, are those of the text, so that no word
\* is cut, lost or moved.
C19_Windows ==
    Chunked /\ env.max_words >= 1 /\ NumWords(text) > env.max_words =>
        LET N == NumWords(text)
            L == env.max_words
            n == Len(story_chunks)
        IN  /\ n = (N + L - 1) \div L
            /\ \A i \in 1..(n - 1) : NumWords(story_chunks[i]) = L
            /\ NumWords(story_chunks[n]) >= 1
            /\ NumWords(story_chunks[n]) <= L
            /\ TotalWords(story_chunks) = N
            /\ NonBlank(Concat(story_chunks)) = NonBlank(text)

\* seven words, limit three: 3 / 3 / 1
C19_Witness ==
    /\ Chunked
    /\ NumWords(text) = 7
    /\ env.max_words = 3
    /\ Len(story_chunks) = 3
    /\ NumWords(story_chunks[3]) = 1

(***************************************************************************)
(* C20: the halves of a chunk, in the synthesize loop.                     *)
(***************************************************************************)
HalvingStep ==
    /\ story_chunks' # story_chunks /\ pc = "loop" =>
          LET chunk == story_chunks[index + 1]
              k == NumWords(chunk)
              left == story_chunks'[index + 1]
              right == story_chunks'[index + 2]
          IN  /\ k >= 2
              /\ Len(story_chunks') = Len(story_chunks) + 1
              /\ left # <<>>
              /\ right # <<>>
              /\ NumWords(left) = k \div 2
              /\ NumWords(right) = k - (k \div 2)
              /\ NonBlank(left) \o NonBlank(right) = NonBlank(chunk)
              /\ index' = index
    /\ pc = "loop" /\ NumWords(story_chunks[index + 1]) < 2 =>
          /\ story_chunks' = story_chunks
          /\ (SendsRequest /\ visit_log'.ended \in {"split", "raised"}
                /\ P_EXCEEDS \in visit_log'.last.msg) =>
                /\ pc' = "raised"
                /\ result'.ret = "raise"
                /\ result'.val.msg = visit_log'.last.msg

\* C20: whenever the loop splits a chunk, the chunk has k >= 2 words and is
\* replaced by exactly two non-empty chunks of floor(k / 2) and
\* k - floor(k / 2) words that hold its words in order; a chunk of fewer
\* than 2 words is never split, and a token-limit error on it is raised.
C20_Halves == [][HalvingStep]_vars

\* a chunk of three words was split into one word and two
C20_Witness ==
    /\ visit_log.ended = "split"
    /\ pc = "loop"
    /\ NumWords(story_chunks[index + 1]) = 1
    /\ Len(story_chunks) >= index + 2
    /\ NumWords(story_chunks[index + 2]) = 2

(***************************************************************************)
(* Audio bytes, base64 text and WAV files (gemini_tts.py, the wave and     *)
(* base64 modules).  A byte is a number 0..255.  The bytes of a            *)
(* well-formed RIFF/WAVE PCM file are kept as the fields wave.open reads   *)
(* from it and writes to it; any other bytes are kept as they are.         *)
(***************************************************************************)
MaxParts == 3

\* the bytes wave.open(buffer, "wb") produces after setnchannels,
\* setsampwidth, setframerate and writeframes(data)
WavFile(nchannels, sampwidth, framerate, data) ==
    [kind |-> "wav", nchannels |-> nchannels, sampwidth |-> sampwidth,
     framerate |-> framerate, data |-> data]

\* bytes that wave.open(buffer, "rb") cannot parse
Raw(bytes) == [kind |-> "raw", bytes |-> bytes]

\* base64.b64encode(bytes).decode("ascii"): the canonical text of the bytes
B64Encode(bytes) == [ok |-> TRUE, bytes |-> bytes, canonical |-> TRUE]

\* a text that decodes to the same bytes without being their canonical
\* encoding (b64decode discards a line break inside the text)
B64WithLineBreak(bytes) == [ok |-> TRUE, bytes |-> bytes, canonical |-> FALSE]

\* a text base64.b64decode rejects (binascii.Error: incorrect padding)
B64Invalid == [ok |-> FALSE, bytes |-> Raw(<<>>), canonical |-> FALSE]

\* base64.b64decode(text) of a text it accepts
B64Decode(b64) == b64.bytes

\* the empty string, the only falsy text
EmptyStr == B64Encode(Raw(<<>>))

\* in_wav.getnframes(): the whole frames of the data chunk
NFrames(wav) == Len(wav.data) \div (wav.nchannels * wav.sampwidth)

ReadWholeChunk(wav) == wav.data

\* in_wav.readframes(in_wav.getnframes())
ReadFrames(wav) ==
    SubSeq(wav.data, 1, NFrames(wav) * wav.nchannels * wav.sampwidth)

MergeFormatLast(wavs) == wavs[Len(wavs)]

\* lines 193-197: the input whose getnchannels, getsampwidth and
\* getframerate the output is given (params_set is False for the first only)
MergeFormat(wavs) == wavs[1]

RECURSIVE MergedFramesSameFormatOnly(_)
MergedFramesSameFormatOnly(wavs) ==
    IF wavs = <<>> THEN <<>>
    ELSE LET last == wavs[Len(wavs)]
             same == /\ last.nchannels = wavs[1].nchannels
                     /\ last.sampwidth = wavs[1].sampwidth
                     /\ last.framerate = wavs[1].framerate
         IN  MergedFramesSameFormatOnly(SubSeq(wavs, 1, Len(wavs) - 1))
                 \o (IF same THEN ReadFrames(last) ELSE <<>>)

\* lines 191-198: what the writeframes calls of the loop have written
RECURSIVE MergedFrames(_)
MergedFrames(wavs) ==
    IF wavs = <<>> THEN <<>>
    ELSE ReadFrames(Head(wavs)) \o MergedFrames(Tail(wavs))

NoChunksReturnsEmpty == Return(<<EmptyStr, "audio/wav">>)

\* line 184: raise GeminiTTSError("No audio chunks to merge.")
NoChunks == Raise(TTSError("merge_empty", 0, {}, {}))

\* _merge_wav_b64(parts_b64)
MergeWavB64(parts_b64) ==
    LET kept == SelectSeq(parts_b64, LAMBDA p : p # EmptyStr)
        wav_parts == [i \in 1..Len(kept) |-> B64Decode(kept[i])]
    IN  IF \E i \in 1..Len(kept) : ~kept[i].ok
        THEN Raise(Uncaught("binascii"))
        ELSE IF wav_parts = <<>> THEN NoChunks
        ELSE IF Len(wav_parts) = 1 THEN Return(<<parts_b64[1], "audio/wav">>)
        ELSE IF \E i \in 1..Len(wav_parts) : wav_parts[i].kind # "wav"
             THEN Raise(Uncaught("wave"))
             ELSE LET first == MergeFormat(wav_parts)
                      merged_bytes == WavFile(first.nchannels, first.sampwidth,
                                              first.framerate, MergedFrames(wav_parts))
                  IN  Return(<<B64Encode(merged_bytes), "audio/wav">>)

\* WAV files of the merger's inputs: mono 16-bit 24 kHz with two frames, one
\* frame, one frame and a stray byte, no frame; stereo; mono 8-bit 16 kHz
MergeWavs ==
    {WavFile(1, 2, 24000, <<1, 2, 3, 4>>),
     WavFile(1, 2, 24000, <<5, 6>>),
     WavFile(1, 2, 24000, <<7, 8, 9>>),
     WavFile(1, 2, 24000, <<>>),
     WavFile(2, 2, 24000, <<10, 11, 12, 13>>),
     WavFile(1, 1, 16000, <<14>>)}

\* RIFF....WAVE and nothing more; an ID3 tag
MergeRaws ==
    {Raw(<<82, 73, 70, 70, 0, 0, 0, 0, 87, 65, 86, 69>>), Raw(<<73, 68, 51>>)}

MergeInputs ==
    {B64Encode(b) : b \in MergeWavs \cup MergeRaws}
        \cup {B64WithLineBreak(WavFile(1, 2, 24000, <<1, 2, 3, 4>>)), EmptyStr, B64Invalid}

SeqsUpTo(S, n) == UNION {[1..k -> S] : k \in 0..n}

MergerInit ==
    /\ SynthIdle
    /\ orch = IdleOrch
    /\ codec \in {[fn |-> "_merge_wav_b64", pc |-> "call", parts_b64 |-> ps,
                   out |-> Return({})] : ps \in SeqsUpTo(MergeInputs, MaxParts)}
    /\ catalog = {}
    /\ VOICE_CACHE = <<>>
    /\ resolving = <<>>
    /\ RequestIdle

\* merged_audio_b64, merged_mime = _merge_wav_b64(parts_b64)
MergeWavB64Call ==
    /\ codec.fn = "_merge_wav_b64"
    /\ codec.pc = "call"
    /\ codec' = [codec EXCEPT !.pc = "done", !.out = MergeWavB64(codec.parts_b64)]
    /\ UNCHANGED <<env, synthVars, net, orch, db, view, resolverVars>>

MergerNext == MergeWavB64Call

MergerSpec == MergerInit /\ [][MergerNext]_vars

(***************************************************************************)
(* Properties of the merger.                                               *)
(***************************************************************************)
Merged == codec.fn = "_merge_wav_b64" /\ codec.pc = "done"

\* every input is the base64 text of a WAV file
AllWav(parts) ==
    \A i \in 1..Len(parts) : parts[i].ok /\ parts[i].bytes.kind = "wav"

SameFormat(a, b) ==
    /\ a.nchannels = b.nchannels
    /\ a.sampwidth = b.sampwidth
    /\ a.framerate = b.framerate

\* the inputs from the second on whose format differs from the first's
Mismatched(parts) ==
    {i \in 2..Len(parts) : ~SameFormat(parts[i].bytes, parts[1].bytes)}

\* the frames of a WAV file: each frame is nchannels * sampwidth bytes
FramesOf(wav) ==
    LET size == wav.nchannels * wav.sampwidth
    IN  [k \in 1..NFrames(wav) |-> SubSeq(wav.data, (k - 1) * size + 1, k * size)]

RECURSIVE TotalFrames(_)
TotalFrames(parts) ==
    IF parts = <<>> THEN 0
    ELSE NFrames(Head(parts).bytes) + TotalFrames(Tail(parts))

RECURSIVE AllFrames(_)
AllFrames(parts) ==
    IF parts = <<>> THEN <<>>
    ELSE FramesOf(Head(parts).bytes) \o AllFrames(Tail(parts))

\* the WAV file a returned merge result encodes
MergedWav == B64Decode(codec.out.val[1])

\* C21: merging one WAV input returns that very text as audio/wav; merging
\* two or more WAV inputs of one format returns one WAV file whose frame
\* count is the sum of the inputs' frame counts and whose frames are the
\* inputs' frames in input order.
C21_MergeConcatenates ==
    (Merged /\ AllWav(codec.parts_b64)) =>
        /\ Len(codec.parts_b64) = 1 =>
               codec.out = Return(<<codec.parts_b64[1], "audio/wav">>)
        /\ (Len(codec.parts_b64) >= 2 /\ Mismatched(codec.parts_b64) = {}) =>
               /\ codec.out.ret = "return"
               /\ codec.out.val[2] = "audio/wav"
               /\ MergedWav.kind = "wav"
               /\ NFrames(MergedWav) = TotalFrames(codec.parts_b64)
               /\ FramesOf(MergedWav) = AllFrames(codec.parts_b64)

\* three WAV inputs of one format, one of them with a stray byte after its
\* last frame, have been merged into four frames
C21_Witness ==
    /\ Merged
    /\ AllWav(codec.parts_b64)
    /\ Len(codec.parts_b64) = 3
    /\ Mismatched(codec.parts_b64) = {}
    /\ \E i \in 1..2 : Len(ReadFrames(codec.parts_b64[i].bytes))
                           < Len(codec.parts_b64[i].bytes.data)
    /\ codec.out.ret = "return"
    /\ NFrames(MergedWav) = 4

\* two or more WAV inputs have been merged
MergedSeveral ==
    /\ Merged
    /\ AllWav(codec.parts_b64)
    /\ Len(codec.parts_b64) >= 2

FrameBytes(parts, i) ==
    LET wav == parts[i].bytes
    IN  SubSeq(wav.data, 1, NFrames(wav) * wav.nchannels * wav.sampwidth)

\* the number of frame bytes of the inputs before input i
RECURSIVE Offset(_, _)
Offset(parts, i) ==
    IF i = 1 THEN 0
    ELSE Offset(parts, i - 1) + Len(FrameBytes(parts, i - 1))

\* C23: a later input whose header declares parameters other than the
\* first input's is appended all the same: no error is raised, the output
\* keeps the first input's format, and the input's frame bytes stand
\* unchanged in the output right after those of the inputs before it.
C23_MismatchAppended ==
    (MergedSeveral /\ Mismatched(codec.parts_b64) # {}) =>
        /\ codec.out.ret = "return"
        /\ SameFormat(MergedWav, codec.parts_b64[1].bytes)
        /\ Len(MergedWav.data)
               = Offset(codec.parts_b64, Len(codec.parts_b64))
                   + Len(FrameBytes(codec.parts_b64, Len(codec.parts_b64)))
        /\ \A i \in Mismatched(codec.parts_b64) :
               SubSeq(MergedWav.data,
                      Offset(codec.parts_b64, i) + 1,
                      Offset(codec.parts_b64, i) + Len(FrameBytes(codec.parts_b64, i)))
                   = FrameBytes(codec.parts_b64, i)

\* a mono 16-bit input, then a stereo one, then a mono 16-bit one: the
\* stereo input's four bytes are in the middle of the mono output
C23_Witness ==
    /\ MergedSeveral
    /\ Len(codec.parts_b64) = 3
    /\ Mismatched(codec.parts_b64) = {2}
    /\ codec.parts_b64[2].bytes.nchannels = 2
    /\ codec.out.ret = "return"
    /\ MergedWav.nchannels = 1
    /\ Len(MergedWav.data) = 8
    /\ SubSeq(MergedWav.data, 3, 6) = <<10, 11, 12, 13>>

\* C24: merging an empty sequence of segments raises the merger's
\* GeminiTTSError for no audio chunks and returns nothing.
C24_EmptyMergeFails ==
    (Merged /\ codec.parts_b64 = <<>>) =>
        /\ codec.out.ret = "raise"
        /\ codec.out.val = TTSError("merge_empty", 0, {}, {})

\* an empty sequence has been merged and the call has raised
C24_Witness ==
    /\ Merged
    /\ codec.parts_b64 = <<>>
    /\ codec.out.ret = "raise"

(***************************************************************************)
(* _normalize_audio and its helpers (gemini_tts.py lines 31-91).  A MIME   *)
(* type is a sequence of one-character strings.                            *)
(***************************************************************************)
\* pattern in value
Contains(value, pattern) ==
    \E i \in 1..(Len(value) - Len(pattern) + 1) :
        SubSeq(value, i, i + Len(pattern) - 1) = pattern

Digits == <<"0", "1", "2", "3", "4", "5", "6", "7", "8", "9">>

IsDigit(c) == \E d \in 1..10 : Digits[d] = c

DigitValue(c) == (CHOOSE d \in 1..10 : Digits[d] = c) - 1

\* the first position from i on that holds no whitespace (\s*)
RECURSIVE SkipSpaces(_, _)
SkipSpaces(value, i) ==
    IF i <= Len(value) /\ IsSpace(value[i]) THEN SkipSpaces(value, i + 1) ELSE i

\* int() of the longest run of digits from position i on (\d+), after acc
RECURSIVE IntFrom(_, _, _)
IntFrom(value, i, acc) ==
    IF i <= Len(value) /\ IsDigit(value[i])
    THEN IntFrom(value, i + 1, 10 * acc + DigitValue(value[i]))
    ELSE acc

\* where the group (\d+) starts when name\s*=\s*(\d+) matches at position i,
\* else 0
GroupAt(value, name, i) ==
    IF i + Len(name) - 1 > Len(value) THEN 0
    ELSE IF SubSeq(value, i, i + Len(name) - 1) # name THEN 0
    ELSE LET eq == SkipSpaces(value, i + Len(name))
         IN  IF eq > Len(value) \/ value[eq] # "=" THEN 0
             ELSE LET d == SkipSpaces(value, eq + 1)
                  IN  IF d <= Len(value) /\ IsDigit(value[d]) THEN d ELSE 0

\* _get_param(value, name): None, or the number of the leftmost match
GetParam(value, name) ==
    LET starts == {i \in 1..Len(value) : GroupAt(value, name, i) # 0}
    IN  IF starts = {} THEN [none |-> TRUE, int |-> 0]
        ELSE LET i == CHOOSE k \in starts : \A j \in starts : k <= j
             IN  [none |-> FALSE, int |-> IntFrom(value, GroupAt(value, name, i), 0)]

\* _get_param(...) or default: None and 0 are falsy
OrDefault(param, default) ==
    IF param.none \/ param.int = 0 THEN default ELSE param.int

StrL16 == <<"l", "1", "6">>

StrLinear16 == <<"l", "i", "n", "e", "a", "r", "1", "6">>

StrCodecPcm == <<"c", "o", "d", "e", "c", "=", "p", "c", "m">>

StrRate == <<"r", "a", "t", "e">>

StrChannels == <<"c", "h", "a", "n", "n", "e", "l", "s">>

AudioWav == <<"a", "u", "d", "i", "o", "/", "w", "a", "v">>

AudioMpeg == <<"a", "u", "d", "i", "o", "/", "m", "p", "e", "g">>

AudioOgg == <<"a", "u", "d", "i", "o", "/", "o", "g", "g">>

AudioFlac == <<"a", "u", "d", "i", "o", "/", "f", "l", "a", "c">>

IsPcmL16Only(mime) == Contains(mime, StrL16)

\* line 74: is_pcm_mime, of the lower-cased MIME
IsPcmMimeText(mime) ==
    Contains(mime, StrL16) \/ Contains(mime, StrLinear16) \/ Contains(mime, StrCodecPcm)

\* _pcm_to_wav(pcm_bytes, sample_rate, channels)
PcmToWav(pcm_bytes, sample_rate, channels) ==
    WavFile(channels, 2, sample_rate, pcm_bytes.bytes)

\* audio_bytes[:n] == prefix
StartsWith(audio_bytes, prefix) ==
    Len(audio_bytes.bytes) >= Len(prefix)
        /\ SubSeq(audio_bytes.bytes, 1, Len(prefix)) = prefix

\* _has_wav_header: RIFF at 0, WAVE at 8
HasWavHeader(audio_bytes) ==
    /\ Len(audio_bytes.bytes) >= 12
    /\ SubSeq(audio_bytes.bytes, 1, 4) = <<82, 73, 70, 70>>
    /\ SubSeq(audio_bytes.bytes, 9, 12) = <<87, 65, 86, 69>>

\* _has_mp3_header: ID3, or 0xFF and a byte whose three high bits are set
\* (b & 0xE0 == 0xE0 is b >= 224 for a byte)
HasMp3Header(audio_bytes) ==
    \/ StartsWith(audio_bytes, <<73, 68, 51>>)
    \/ /\ Len(audio_bytes.bytes) >= 2
       /\ audio_bytes.bytes[1] = 255
       /\ audio_bytes.bytes[2] \div 32 = 7

\* _has_ogg_header: OggS
HasOggHeader(audio_bytes) == StartsWith(audio_bytes, <<79, 103, 103, 83>>)

\* _has_flac_header: fLaC
HasFlacHeader(audio_bytes) == StartsWith(audio_bytes, <<102, 76, 97, 67>>)

UndetectedLowered(mime, mime_type) == mime

\* line 91: return audio_b64, mime_type
Undetected(mime, mime_type) == mime_type

\* _normalize_audio(audio_b64, mime_type)
NormalizeAudio(audio_b64, mime_type) ==
    IF ~audio_b64.ok THEN Raise(Uncaught("binascii"))
    ELSE LET audio_bytes == B64Decode(audio_b64)
             mime == Lower(mime_type)
         IN  IF IsPcmMimeText(mime)
             THEN LET sample_rate == OrDefault(GetParam(mime, StrRate), 24000)
                      channels == OrDefault(GetParam(mime, StrChannels), 1)
                      wav_bytes == PcmToWav(audio_bytes, sample_rate, channels)
                  IN  Return(<<B64Encode(wav_bytes), AudioWav>>)
             ELSE IF HasWavHeader(audio_bytes) THEN Return(<<audio_b64, AudioWav>>)
             ELSE IF HasMp3Header(audio_bytes) THEN Return(<<audio_b64, AudioMpeg>>)
             ELSE IF HasOggHeader(audio_bytes) THEN Return(<<audio_b64, AudioOgg>>)
             ELSE IF HasFlacHeader(audio_bytes) THEN Return(<<audio_b64, AudioFlac>>)
             ELSE Return(<<audio_b64, Undetected(mime, mime_type)>>)

\* MIME types that declare raw PCM, each with the format it declares
PcmExamples ==
    {[mime |-> <<"a", "u", "d", "i", "o", "/", "l", "1", "6", ";", "r", "a", "t", "e", "=", "1", "6", "0", "0", "0", ";", "c", "h", "a", "n", "n", "e", "l", "s", "=", "1">>,
      framerate |-> 16000, nchannels |-> 1],
     [mime |-> <<"a", "u", "d", "i", "o", "/", "L", "1", "6", ";", "c", "o", "d", "e", "c", "=", "p", "c", "m", ";", "r", "a", "t", "e", "=", "2", "4", "0", "0", "0">>,
      framerate |-> 24000, nchannels |-> 1],
     [mime |-> <<"a", "u", "d", "i", "o", "/", "l", "1", "6">>,
      framerate |-> 24000, nchannels |-> 1],
     [mime |-> <<"a", "u", "d", "i", "o", "/", "l", "i", "n", "e", "a", "r", "1", "6", ";", " ", "r", "a", "t", "e", " ", "=", " ", "8", "0", "0", "0", ";", " ", "c", "h", "a", "n", "n", "e", "l", "s", "=", "2">>,
      framerate |-> 8000, nchannels |-> 2],
     [mime |-> <<"a", "u", "d", "i", "o", "/", "x", "-", "r", "a", "w", ";", "c", "o", "d", "e", "c", "=", "p", "c", "m", ";", "c", "h", "a", "n", "n", "e", "l", "s", "=", "2">>,
      framerate |-> 24000, nchannels |-> 2],
     [mime |-> <<"A", "U", "D", "I", "O", "/", "L", "1", "6", ";", "R", "A", "T", "E", "=", "4", "4", "1", "0", "0">>,
      framerate |-> 44100, nchannels |-> 1],
     [mime |-> <<"a", "u", "d", "i", "o", "/", "l", "1", "6", ";", "r", "a", "t", "e", "=", "0", ";", "c", "h", "a", "n", "n", "e", "l", "s", "=", "0">>,
      framerate |-> 24000, nchannels |-> 1]}

\* MIME types that do not declare raw PCM
OtherMimes ==
    {<<"a", "u", "d", "i", "o", "/", "w", "a", "v">>,
     <<"a", "u", "d", "i", "o", "/", "m", "p", "e", "g">>,
     <<"A", "u", "d", "i", "o", "/", "M", "P", "3">>,
     <<"a", "u", "d", "i", "o", "/", "o", "g", "g", ";", "r", "a", "t", "e", "=", "1", "6", "0", "0", "0">>,
     <<>>}

\* audio bytes, each with the MIME type of its signature (none: "")
AudioExamples ==
    {[bytes |-> <<82, 73, 70, 70, 36, 0, 0, 0, 87, 65, 86, 69, 102>>,
      mime |-> <<"a", "u", "d", "i", "o", "/", "w", "a", "v">>],
     [bytes |-> <<82, 73, 70, 70, 36, 0, 0, 0, 65, 86, 73, 32>>,
      mime |-> <<>>],
     [bytes |-> <<82, 73, 70, 70>>,
      mime |-> <<>>],
     [bytes |-> <<73, 68, 51, 4>>,
      mime |-> <<"a", "u", "d", "i", "o", "/", "m", "p", "e", "g">>],
     [bytes |-> <<255, 251, 144>>,
      mime |-> <<"a", "u", "d", "i", "o", "/", "m", "p", "e", "g">>],
     [bytes |-> <<255, 31>>,
      mime |-> <<>>],
     [bytes |-> <<79, 103, 103, 83, 0>>,
      mime |-> <<"a", "u", "d", "i", "o", "/", "o", "g", "g">>],
     [bytes |-> <<102, 76, 97, 67, 0>>,
      mime |-> <<"a", "u", "d", "i", "o", "/", "f", "l", "a", "c">>],
     [bytes |-> <<1, 2, 3, 4>>,
      mime |-> <<>>],
     [bytes |-> <<1, 2, 3>>,
      mime |-> <<>>],
     [bytes |-> <<>>,
      mime |-> <<>>]}

NormalizeInputs ==
    {B64Encode(Raw(e.bytes)) : e \in AudioExamples}
        \cup {B64WithLineBreak(Raw(<<1, 2, 3, 4>>)), B64Invalid}

NormalizerInit ==
    /\ SynthIdle
    /\ orch = IdleOrch
    /\ codec \in {[fn |-> "_normalize_audio", pc |-> "call", audio_b64 |-> a,
                   mime_type |-> m, out |-> Return({})] :
                     a \in NormalizeInputs,
                     m \in {e.mime : e \in PcmExamples} \cup OtherMimes}
    /\ catalog = {}
    /\ VOICE_CACHE = <<>>
    /\ resolving = <<>>
    /\ RequestIdle

\* normalized_audio_b64, normalized_mime = _normalize_audio(audio_b64, mime_type)
NormalizeAudioCall ==
    /\ codec.fn = "_normalize_audio"
    /\ codec.pc = "call"
    /\ codec' = [codec EXCEPT !.pc = "done",
                              !.out = NormalizeAudio(codec.audio_b64, codec.mime_type)]
    /\ UNCHANGED <<env, synthVars, net, orch, db, view, resolverVars>>

NormalizerNext == NormalizeAudioCall

NormalizerSpec == NormalizerInit /\ [][NormalizerNext]_vars

(***************************************************************************)
(* Properties of the normalizer.                                           *)
(***************************************************************************)
Normalized ==
    /\ codec.fn = "_normalize_audio"
    /\ codec.pc = "done"
    /\ codec.audio_b64.ok

\* C25: under a MIME type that declares raw PCM (l16, linear16, codec=pcm)
\* the bytes, whatever they are, come back as the data of a WAV file with
\* 16-bit samples and with the sample rate and channel count of the MIME
\* type's rate= and channels= parameters (24000 Hz and 1 channel where it
\* has none), returned as audio/wav.
C25_PcmWrapped ==
    \A e \in PcmExamples :
        (Normalized /\ codec.mime_type = e.mime) =>
            /\ codec.out.ret = "return"
            /\ codec.out.val[2] = AudioWav
            /\ codec.out.val[1] =
                   B64Encode(WavFile(e.nchannels, 2, e.framerate,
                                     B64Decode(codec.audio_b64).bytes))

\* bytes that start with an ID3 tag were normalized under
\* audio/l16;rate=16000;channels=1 and came back as a 16000 Hz, 1 channel,
\* 16-bit WAV file
C25_Witness ==
    /\ Normalized
    /\ codec.mime_type = <<"a", "u", "d", "i", "o", "/", "l", "1", "6", ";", "r", "a", "t", "e", "=", "1", "6", "0", "0", "0", ";", "c", "h", "a", "n", "n", "e", "l", "s", "=", "1">>
    /\ B64Decode(codec.audio_b64).bytes = <<73, 68, 51, 4>>
    /\ codec.out.ret = "return"
    /\ codec.out.val[2] = AudioWav
    /\ B64Decode(codec.out.val[1]) = WavFile(1, 2, 16000, <<73, 68, 51, 4>>)

\* the MIME type of the signature of the bytes just normalized ("": none)
SignatureMime ==
    (CHOOSE e \in AudioExamples : e.bytes = B64Decode(codec.audio_b64).bytes).mime

\* C26: under a MIME type that does not declare raw PCM the audio comes
\* back unchanged; the returned MIME type is that of the bytes' signature
\* (RIFF....WAVE, ID3 or an MPEG frame sync, OggS, fLaC) whatever was
\* declared, and the declared MIME type as given when no signature
\* matches; nothing is raised.
C26_BySignature ==
    (Normalized /\ codec.mime_type \in OtherMimes) =>
        /\ codec.out.ret = "return"
        /\ codec.out.val[1] = codec.audio_b64
        /\ codec.out.val[2] =
               IF SignatureMime = <<>> THEN codec.mime_type ELSE SignatureMime

\* bytes without a signature were normalized under Audio/MP3 and came back
\* with that MIME type
C26_Witness ==
    /\ Normalized
    /\ codec.mime_type = <<"A", "u", "d", "i", "o", "/", "M", "P", "3">>
    /\ SignatureMime = <<>>
    /\ B64Decode(codec.audio_b64).bytes # <<>>
    /\ codec.out = Return(<<codec.audio_b64, codec.mime_type>>)

(***************************************************************************)
(* The voice resolver (tts.py lines 23-24 and 54-114).  A language code is *)
(* a string; a voice name is a sequence of one-character strings, "" the   *)
(* empty sequence.  Every thread of enqueue_request (processor.py lines    *)
(* 116-118) that reaches google synthesize calls _resolve_voice_selection  *)
(* on the one _VOICE_CACHE of the process.                                 *)
(***************************************************************************)
MaxCalls == 3

\* _FALLBACK_LANGS
FALLBACK_LANGS == <<"en-NG", "en-ZA", "en-GB">>

StrNeural2 == <<"N", "e", "u", "r", "a", "l", "2">>

StrWavenet == <<"W", "a", "v", "e", "n", "e", "t">>

StrWaveNet == <<"W", "a", "v", "e", "N", "e", "t">>

StrStudio == <<"S", "t", "u", "d", "i", "o">>

StrStandard == <<"S", "t", "a", "n", "d", "a", "r", "d">>

\* lines 60-69: the tier of a voice name
Priority(name) ==
    IF Contains(name, StrNeural2) THEN 0
    ELSE IF Contains(name, StrWavenet) \/ Contains(name, StrWaveNet) THEN 1
    ELSE IF Contains(name, StrStudio) THEN 2
    ELSE IF Contains(name, StrStandard) THEN 3
    ELSE 4

\* ord(c) of the characters of voice names: "-", digits, letters
CodePoint(c) ==
    IF c = "-" THEN 45
    ELSE IF IsDigit(c) THEN 48 + DigitValue(c)
    ELSE IF \E k \in 1..26 : UpperCase[k] = c
         THEN 64 + (CHOOSE k \in 1..26 : UpperCase[k] = c)
         ELSE 96 + (CHOOSE k \in 1..26 : LowerCase[k] = c)

\* a < b for two strings
RECURSIVE StrLess(_, _)
StrLess(a, b) ==
    IF b = <<>> THEN FALSE
    ELSE IF a = <<>> THEN TRUE
    ELSE IF Head(a) = Head(b) THEN StrLess(Tail(a), Tail(b))
    ELSE CodePoint(Head(a)) < CodePoint(Head(b))

\* (priority, name) tuples in sort order
CandidateLess(x, y) ==
    x[1] < y[1] \/ (x[1] = y[1] /\ StrLess(x[2], y[2]))

\* sorted(...): the names of a set of (priority, name) tuples in order
RECURSIVE SortedNames(_)
SortedNames(candidates) ==
    IF candidates = {} THEN <<>>
    ELSE LET least == CHOOSE x \in candidates :
                          \A y \in candidates \ {x} : CandidateLess(x, y)
         IN  <<least[2]>> \o SortedNames(candidates \ {least})

\* _voice_candidates_for_language(voices, language_code)
VoiceCandidatesForLanguage(voices, language_code) ==
    SortedNames({<<Priority(v.name), v.name>> :
                    v \in {w \in voices : language_code \in w.language_codes}})

HasRequestedVoiceInLanguage(voices, requested_language, requested_voice) ==
    \E v \in voices : v.name = requested_voice /\ requested_language \in v.language_codes

\* line 98: any(v.name == requested_voice for v in voices)
HasRequestedVoice(voices, requested_language, requested_voice) ==
    \E v \in voices : v.name = requested_voice

LanguageOrderFallbacksFirst(requested_language) ==
    SelectSeq(FALLBACK_LANGS, LAMBDA lang : lang # requested_language)
        \o <<requested_language>>

\* line 105: language_order
LanguageOrder(requested_language) ==
    <<requested_language>> \o SelectSeq(FALLBACK_LANGS, LAMBDA lang : lang # requested_language)

\* lines 106-111: the first language of the order that has a candidate, with
\* its first candidate; else what selected_language, selected_voice hold
RECURSIVE FirstWithNames(_, _, _)
FirstWithNames(voices, order, otherwise) ==
    IF order = <<>> THEN otherwise
    ELSE LET names == VoiceCandidatesForLanguage(voices, Head(order))
         IN  IF names # <<>> THEN <<Head(order), names[1]>>
             ELSE FirstWithNames(voices, Tail(order), otherwise)

\* lines 90-114 of _resolve_voice_selection: (selected_language,
\* selected_voice) for the voices listed
Selection(voices, requested_language, requested_voice) ==
    IF requested_voice # <<>>
           /\ HasRequestedVoice(voices, requested_language, requested_voice)
    THEN <<requested_language, requested_voice>>
    ELSE FirstWithNames(voices, LanguageOrder(requested_language),
                        <<requested_language, <<>>>>)

DegradedDefaultLanguage(requested_language, requested_voice) ==
    <<"en-GB", requested_voice>>

\* lines 85-88: the requested values
Degraded(requested_language, requested_voice) ==
    <<requested_language, requested_voice>>

\* line 77: cache_key (requested_voice is a string, "" when none is asked)
CacheKey(requested_language, requested_voice) ==
    <<requested_language, requested_voice>>

CachedNever(cache_key) == FALSE

CachedResolved(cache_key) ==
    cache_key \in DOMAIN VOICE_CACHE /\ VOICE_CACHE[cache_key] # cache_key

\* line 78: cache_key in _VOICE_CACHE
Cached(cache_key) == cache_key \in DOMAIN VOICE_CACHE

CacheEntryRequested(frame) == <<frame.requested_language, frame.requested_voice>>

\* lines 87, 100, 113: the value written to _VOICE_CACHE[cache_key]
CacheEntry(frame) == frame.selected

\* voice catalogs: British and French voices only; South African, Nigerian
\* and British voices, one of them for two languages; South African voices
\* of the two lowest tiers; no voice
Catalogs ==
    {{[name |-> <<"e", "n", "-", "G", "B", "-", "N", "e", "u", "r", "a", "l", "2", "-", "A">>,
      language_codes |-> {"en-GB"}],
     [name |-> <<"e", "n", "-", "G", "B", "-", "S", "t", "a", "n", "d", "a", "r", "d", "-", "A">>,
      language_codes |-> {"en-GB"}],
     [name |-> <<"e", "n", "-", "G", "B", "-", "W", "a", "v", "e", "n", "e", "t", "-", "B">>,
      language_codes |-> {"en-GB"}],
     [name |-> <<"f", "r", "-", "F", "R", "-", "N", "e", "u", "r", "a", "l", "2", "-", "A">>,
      language_codes |-> {"fr-FR"}]},
     {[name |-> <<"e", "n", "-", "Z", "A", "-", "S", "t", "a", "n", "d", "a", "r", "d", "-", "B">>,
      language_codes |-> {"en-ZA"}],
     [name |-> <<"e", "n", "-", "Z", "A", "-", "S", "t", "a", "n", "d", "a", "r", "d", "-", "A">>,
      language_codes |-> {"en-ZA"}],
     [name |-> <<"e", "n", "-", "N", "G", "-", "C", "h", "i", "r", "p", "-", "A">>,
      language_codes |-> {"en-NG"}],
     [name |-> <<"e", "n", "-", "G", "B", "-", "S", "t", "u", "d", "i", "o", "-", "B">>,
      language_codes |-> {"en-GB"}],
     [name |-> <<"e", "n", "-", "G", "B", "-", "W", "a", "v", "e", "N", "e", "t", "-", "C">>,
      language_codes |-> {"en-GB", "en-ZA"}]},
     {[name |-> <<"e", "n", "-", "Z", "A", "-", "S", "t", "a", "n", "d", "a", "r", "d", "-", "B">>,
      language_codes |-> {"en-ZA"}],
     [name |-> <<"e", "n", "-", "Z", "A", "-", "S", "t", "a", "n", "d", "a", "r", "d", "-", "A">>,
      language_codes |-> {"en-ZA"}],
     [name |-> <<"e", "n", "-", "Z", "A", "-", "C", "h", "i", "r", "p", "-", "A">>,
      language_codes |-> {"en-ZA"}]},
     {}}

\* TTS_LANGUAGE_CODE or the tone's language_code
RequestedLanguages == {"en-ZA", "en-GB", "fr-FR"}

\* TTS_VOICE_NAME or the tone's name: none, a British voice, an unknown one
RequestedVoices ==
    {<<>>,
     <<"e", "n", "-", "G", "B", "-", "S", "t", "a", "n", "d", "a", "r", "d", "-", "A">>,
     <<"x", "x", "-", "C", "u", "s", "t", "o", "m", "-", "A">>}

CacheKeys == {CacheKey(l, v) : l \in RequestedLanguages, v \in RequestedVoices}

NoSelection == <<"", <<>>>>

\* a thread that is not in _resolve_voice_selection; repeats: whether it
\* serves one request after another or one request only
IdleFrame(repeats) ==
    [pc |-> "idle", requested_language |-> "", requested_voice |-> <<>>,
     listing |-> "none", selected |-> NoSelection, out |-> NoSelection, log |-> <<>>,
     repeats |-> repeats]

\* synthesize, lines 301-303: the voice parameters of the request built
\* from what _resolve_voice_selection returned (no name for an empty one)
VoiceParams(selected) == [language_code |-> selected[1], name |-> selected[2]]

\* the call in hand returns value to synthesize: the frame of the thread,
\* with the call, how it got its value, the value and the voice parameters
\* synthesize goes on with added to the calls that have returned
Returned(frame, how, value) ==
    [frame EXCEPT !.pc = "idle", !.listing = how, !.out = value,
                  !.log = Append(frame.log,
                                 [key |-> CacheKey(frame.requested_language,
                                                   frame.requested_voice),
                                  listing |-> how, out |-> value,
                                  voice_params |-> VoiceParams(value)])]

ResolverInitOf(threads, repeats) ==
    /\ SynthIdle
    /\ orch = IdleOrch
    /\ codec = IdleCodec
    /\ catalog \in {[voices |-> c, listed |-> [k \in CacheKeys |-> 0]] : c \in Catalogs}
    /\ VOICE_CACHE = <<>>
    /\ resolving = [t \in threads |-> IdleFrame(repeats)]
    /\ RequestIdle

\* selected_language, selected_voice = _resolve_voice_selection(client, ...)
ResolveCall(t) ==
    /\ resolving[t].pc = "idle"
    /\ Len(resolving[t].log) < (IF resolving[t].repeats THEN MaxCalls ELSE 1)
    /\ \E l \in RequestedLanguages, v \in RequestedVoices :
          resolving' = [resolving EXCEPT ![t] =
                            [@ EXCEPT !.pc = "lookup", !.requested_language = l,
                                      !.requested_voice = v, !.listing = "none",
                                      !.selected = NoSelection, !.out = NoSelection]]
    /\ UNCHANGED <<env, synthVars, net, orch, db, view, codec, catalog, VOICE_CACHE>>

\* lines 77-79: return the memoized value, or go on to list the voices
CacheLookup(t) ==
    /\ resolving[t].pc = "lookup"
    /\ LET frame == resolving[t]
           cache_key == CacheKey(frame.requested_language, frame.requested_voice)
       IN  resolving' = [resolving EXCEPT ![t] =
                            IF Cached(cache_key)
                            THEN Returned(frame, "hit", VOICE_CACHE[cache_key])
                            ELSE [frame EXCEPT !.pc = "listing"]]
    /\ UNCHANGED <<env, synthVars, net, orch, db, view, codec, catalog, VOICE_CACHE>>

\* line 84 returns the voices; lines 90-111 select
CatalogListed(t) ==
    /\ resolving[t].pc = "listing"
    /\ LET frame == resolving[t]
           cache_key == CacheKey(frame.requested_language, frame.requested_voice)
       IN  /\ resolving' = [resolving EXCEPT ![t] =
                               [frame EXCEPT !.pc = "store", !.listing = "ok",
                                             !.selected = Selection(catalog.voices,
                                                                    frame.requested_language,
                                                                    frame.requested_voice)]]
           /\ catalog' = [catalog EXCEPT !.listed[cache_key] = @ + 1]
    /\ UNCHANGED <<env, synthVars, net, orch, db, view, codec, VOICE_CACHE>>

\* line 84 raises; line 85 catches
CatalogFailed(t) ==
    /\ resolving[t].pc = "listing"
    /\ LET frame == resolving[t]
           cache_key == CacheKey(frame.requested_language, frame.requested_voice)
       IN  /\ resolving' = [resolving EXCEPT ![t] =
                               [frame EXCEPT !.pc = "store", !.listing = "failed",
                                             !.selected = Degraded(frame.requested_language,
                                                                   frame.requested_voice)]]
           /\ catalog' = [catalog EXCEPT !.listed[cache_key] = @ + 1]
    /\ UNCHANGED <<env, synthVars, net, orch, db, view, codec, VOICE_CACHE>>

\* lines 87-88, 100-101 or 113-114: write the cache, return
CacheStore(t) ==
    /\ resolving[t].pc = "store"
    /\ LET frame == resolving[t]
           cache_key == CacheKey(frame.requested_language, frame.requested_voice)
       IN  /\ VOICE_CACHE' = [k \in DOMAIN VOICE_CACHE \cup {cache_key} |->
                                 IF k = cache_key THEN CacheEntry(frame)
                                 ELSE VOICE_CACHE[k]]
           /\ resolving' = [resolving EXCEPT ![t] =
                               Returned(frame, frame.listing, frame.selected)]
    /\ UNCHANGED <<env, synthVars, net, orch, db, view, codec, catalog>>

ResolverNext ==
    \E t \in DOMAIN resolving :
        \/ ResolveCall(t)
        \/ CacheLookup(t)
        \/ CatalogListed(t)
        \/ CatalogFailed(t)
        \/ CacheStore(t)

\* calls that do not overlap: one thread
ResolverInit == ResolverInitOf({"t1"}, TRUE)

ResolverSpec == ResolverInit /\ [][ResolverNext]_vars

\* two requests processed at once, each on its own thread (enqueue_request
\* starts a thread per request, and a request resolves its voice once)
ConcurrentResolverInit == ResolverInitOf({"t1", "t2"}, FALSE)

ConcurrentResolverNext == ResolverNext

ConcurrentResolverSpec == ConcurrentResolverInit /\ [][ConcurrentResolverNext]_vars

(***************************************************************************)
(* Properties of the voice resolver.                                       *)
(***************************************************************************)
\* the calls of thread t that have returned, in order
LogOf(t) == resolving[t].log

\* C27: over calls that do not overlap, the catalog is listed at most once
\* for each (requested language, requested voice) key, and every later
\* call with a key returns the value the first call with that key returned
\* and memoized, without listing.
C27_ListedOncePerKey ==
    /\ \A k \in CacheKeys : catalog.listed[k] <= 1
    /\ \A t \in DOMAIN resolving :
           \A i \in 1..Len(LogOf(t)), j \in 1..Len(LogOf(t)) :
               (i < j /\ LogOf(t)[i].key = LogOf(t)[j].key) =>
                   /\ LogOf(t)[j].out = LogOf(t)[i].out
                   /\ LogOf(t)[j].listing = "hit"

\* three calls with one key: the first listed the catalog and resolved to a
\* voice that was not requested, the two later ones returned that value
C27_Witness ==
    /\ Len(LogOf("t1")) = 3
    /\ \A i \in 1..3 : LogOf("t1")[i].key = LogOf("t1")[1].key
    /\ LogOf("t1")[1].listing = "ok"
    /\ LogOf("t1")[1].out # LogOf("t1")[1].key
    /\ LogOf("t1")[3].out = LogOf("t1")[1].out
    /\ catalog.listed[LogOf("t1")[1].key] = 1

\* C30: a call whose requested voice name is not empty and is the name of
\* some voice of the catalog, of whatever language, returns the requested
\* language and the requested voice.
C30_RequestedVoiceKept ==
    \A t \in DOMAIN resolving :
        \A i \in 1..Len(LogOf(t)) :
            LET requested_language == LogOf(t)[i].key[1]
                requested_voice == LogOf(t)[i].key[2]
            IN  (requested_voice # <<>>
                     /\ \E v \in catalog.voices : v.name = requested_voice) =>
                    LogOf(t)[i].out = <<requested_language, requested_voice>>

\* fr-FR was requested with a voice the catalog lists for en-GB only, the
\* catalog was listed, and the call returned fr-FR with that voice
C30_Witness ==
    \E i \in 1..Len(LogOf("t1")) :
        /\ LogOf("t1")[i].listing = "ok"
        /\ LogOf("t1")[i].key[1] = "fr-FR"
        /\ \E v \in catalog.voices :
               v.name = LogOf("t1")[i].key[2] /\ "fr-FR" \notin v.language_codes
        /\ \E v \in catalog.voices : "fr-FR" \in v.language_codes
        /\ LogOf("t1")[i].out = LogOf("t1")[i].key

\* thread t is between its cache miss and its cache write
Populating(t) == resolving[t].pc \in {"listing", "store"}

KeyOf(t) == CacheKey(resolving[t].requested_language, resolving[t].requested_voice)

\* C28: two requests resolving the same uncached key are never both in the
\* populate path (catalog query, then cache write) at the same time.
C28_PopulateExclusive ==
    \A t1 \in DOMAIN resolving, t2 \in DOMAIN resolving :
        (t1 # t2 /\ Populating(t1) /\ Populating(t2)) => KeyOf(t1) # KeyOf(t2)

\* the call of request t has returned after listing the catalog itself
Populated(t) ==
    /\ LogOf(t) # <<>>
    /\ LogOf(t)[1].listing \in {"ok", "failed"}

\* both requests have populated the same key
Raced(t1, t2) ==
    /\ t1 # t2
    /\ Populated(t1)
    /\ Populated(t2)
    /\ LogOf(t1)[1].key = LogOf(t2)[1].key

TierOf(name) ==
    CASE Contains(name, StrNeural2) -> 0
      [] Contains(name, StrWavenet) \/ Contains(name, StrWaveNet) -> 1
      [] Contains(name, StrStudio) -> 2
      [] Contains(name, StrStandard) -> 3
      [] OTHER -> 4

\* the names of the catalog voices of a language
NamesFor(lang) == {v.name : v \in {w \in catalog.voices : lang \in w.language_codes}}

\* no voice of the language is ranked before name
BestFor(lang, name) ==
    /\ name \in NamesFor(lang)
    /\ \A other \in NamesFor(lang) \ {name} :
           \/ TierOf(name) < TierOf(other)
           \/ (TierOf(name) = TierOf(other) /\ StrLess(name, other))

\* requested language first, then en-NG, en-ZA, en-GB, none twice
WalkOrder(requested_language) ==
    IF requested_language = "en-NG" THEN <<"en-NG", "en-ZA", "en-GB">>
    ELSE IF requested_language = "en-ZA" THEN <<"en-ZA", "en-NG", "en-GB">>
    ELSE IF requested_language = "en-GB" THEN <<"en-GB", "en-NG", "en-ZA">>
    ELSE <<requested_language, "en-NG", "en-ZA", "en-GB">>

\* a call that listed the catalog without finding an explicit voice in it
FellBack(entry) ==
    /\ entry.listing = "ok"
    /\ \/ entry.key[2] = <<>>
       \/ ~\E v \in catalog.voices : v.name = entry.key[2]

\* C31: a call that listed the catalog, with no voice requested or with a
\* requested voice the catalog does not hold, returns the first language of
\* the walk order (requested, en-NG, en-ZA, en-GB, none twice) that has a
\* catalog voice, with that language's best voice by tier (Neural2,
\* Wavenet, Studio, Standard, other) and then by name; with no voice in any
\* of these languages it returns the requested language and an empty name.
C31_FallbackRanking ==
    \A t \in DOMAIN resolving :
        \A i \in 1..Len(LogOf(t)) :
            LET entry == LogOf(t)[i]
                order == WalkOrder(entry.key[1])
                with == {k \in 1..Len(order) : NamesFor(order[k]) # {}}
            IN  FellBack(entry) =>
                    IF with = {}
                    THEN entry.out = <<entry.key[1], <<>>>>
                    ELSE LET first == CHOOSE k \in with : \A j \in with : k <= j
                         IN  /\ entry.out[1] = order[first]
                             /\ BestFor(order[first], entry.out[2])

\* en-ZA was requested with an unknown voice; the catalog has South African
\* voices of two tiers, and one of another tier whose name sorts first: the
\* call returned the Standard voice whose name sorts first
C31_Witness ==
    \E i \in 1..Len(LogOf("t1")) :
        /\ FellBack(LogOf("t1")[i])
        /\ LogOf("t1")[i].key[1] = "en-ZA"
        /\ LogOf("t1")[i].key[2] # <<>>
        /\ Cardinality({n \in NamesFor("en-ZA") : TierOf(n) = 3}) = 2
        /\ \E n \in NamesFor("en-ZA") : TierOf(n) = 4 /\ StrLess(n, LogOf("t1")[i].out[2])
        /\ LogOf("t1")[i].out[1] = "en-ZA"
        /\ TierOf(LogOf("t1")[i].out[2]) = 3

\* C32: a call whose catalog listing failed raises nothing: it returns the
\* requested language and the requested voice as they were given, and
\* synthesize builds the voice parameters of its request from them.
C32_ListingFailureDegrades ==
    \A t \in DOMAIN resolving :
        /\ (resolving[t].pc = "store" /\ resolving[t].listing = "failed") =>
               resolving[t].selected
                   = <<resolving[t].requested_language, resolving[t].requested_voice>>
        /\ \A i \in 1..Len(LogOf(t)) :
               LogOf(t)[i].listing = "failed" =>
                   /\ LogOf(t)[i].out = <<LogOf(t)[i].key[1], LogOf(t)[i].key[2]>>
                   /\ LogOf(t)[i].voice_params
                          = [language_code |-> LogOf(t)[i].key[1],
                             name |-> LogOf(t)[i].key[2]]

\* fr-FR was requested with a voice unknown to a catalog that has voices;
\* the listing failed and the call returned fr-FR with that voice
C32_Witness ==
    \E i \in 1..Len(LogOf("t1")) :
        /\ LogOf("t1")[i].listing = "failed"
        /\ LogOf("t1")[i].key[1] = "fr-FR"
        /\ LogOf("t1")[i].key[2] # <<>>
        /\ catalog.voices # {}
        /\ ~\E v \in catalog.voices : v.name = LogOf("t1")[i].key[2]
        /\ LogOf("t1")[i].out = LogOf("t1")[i].key
        /\ LogOf("t1")[i].voice_params.language_code = "fr-FR"

\* C36: once the first resolution of a key has failed to list the catalog,
\* every later resolution of that key returns the unresolved requested
\* values from the cache and the catalog is not listed for that key again,
\* although it would now be listed with success.
C36_FailureMemoized ==
    \A t \in DOMAIN resolving :
        \A i \in 1..Len(LogOf(t)) :
            LogOf(t)[i].listing = "failed" =>
                /\ catalog.listed[LogOf(t)[i].key] = 1
                /\ \A j \in (i + 1)..Len(LogOf(t)) :
                       LogOf(t)[j].key = LogOf(t)[i].key =>
                           /\ LogOf(t)[j].listing = "hit"
                           /\ LogOf(t)[j].out = LogOf(t)[i].key

\* the first call for en-ZA without a voice failed to list a catalog that
\* has British voices; a call for another key then listed it, and a later
\* call for the first key still returned en-ZA without a voice
C36_Witness ==
    /\ Len(LogOf("t1")) = 3
    /\ LogOf("t1")[1].listing = "failed"
    /\ LogOf("t1")[1].key = <<"en-ZA", <<>>>>
    /\ LogOf("t1")[2].listing = "ok"
    /\ LogOf("t1")[2].key # LogOf("t1")[1].key
    /\ LogOf("t1")[3].key = LogOf("t1")[1].key
    /\ LogOf("t1")[3].out = <<"en-ZA", <<>>>>
    /\ NamesFor("en-ZA") = {}
    /\ NamesFor("en-GB") # {}

(***************************************************************************)
(* _build_subtitles (tts.py lines 386-404).  A duration is a whole number  *)
(* of ticks of 1/300 s, so that word_count / 2.4 s is word_count * 125     *)
(* ticks exactly; start_sec and end_sec are whole hundredths of a second.  *)
(* A sum of such durations lies at least 1/600 s from a rounding tie, far  *)
(* more than the error of the float additions.                             *)
(***************************************************************************)
MaxSubtitleWords == 3

\* 1 / words_per_second, in ticks
TicksPerWord == 125

IsSentenceEnd(c) == c \in {".", "!", "?"}

\* re.split(r"(?<=[.!?])\s+", text): the pieces between the runs of
\* whitespace that follow a ".", "!" or "?"
RECURSIVE ReSplitFrom(_, _, _)
ReSplitFrom(str, i, cur) ==
    IF i > Len(str) THEN <<cur>>
    ELSE IF i > 1 /\ IsSpace(str[i]) /\ IsSentenceEnd(str[i - 1])
         THEN <<cur>> \o ReSplitFrom(str, SkipSpaces(str, i), <<>>)
         ELSE ReSplitFrom(str, i + 1, Append(cur, str[i]))

\* line 387: sentences
Sentences(str) ==
    LET pieces == ReSplitFrom(str, 1, <<>>)
        stripped == [i \in 1..Len(pieces) |-> Strip(pieces[i])]
    IN  SelectSeq(stripped, LAMBDA piece : piece # <<>>)

Round2Down(ticks) == ticks \div 3

\* round(seconds, 2), from ticks to hundredths of a second
Round2(ticks) == (2 * ticks + 3) \div 6

\* lines 392-402: the entries for the sentences from time_cursor on
RECURSIVE SubtitlesFrom(_, _)
SubtitlesFrom(sentences, time_cursor) ==
    IF sentences = <<>> THEN <<>>
    ELSE LET sentence == Head(sentences)
             word_count == Max(Len(PySplit(sentence)), 1)
             duration == word_count * TicksPerWord
         IN  <<[start_sec |-> Round2(time_cursor),
                end_sec |-> Round2(time_cursor + duration),
                text |-> sentence]>>
                 \o SubtitlesFrom(Tail(sentences), time_cursor + duration)

\* _build_subtitles(text)
BuildSubtitles(str) == SubtitlesFrom(Sentences(str), 0)

RECURSIVE JoinWith(_, _)
JoinWith(words, sep) ==
    IF words = <<>> THEN <<>>
    ELSE IF Len(words) = 1 THEN words[1]
    ELSE words[1] \o sep \o JoinWith(Tail(words), sep)

\* a word, and words that end a sentence
SubtitleWords == {<<"a">>, <<"b", "b", ".">>, <<"c", "!">>, <<"d", "?">>}

\* texts of up to MaxSubtitleWords words with one space between them, and
\* short ones with blanks around them and line breaks between the words
SubtitleTexts ==
    {JoinWith(ws, <<" ">>) : ws \in SeqsUpTo(SubtitleWords, MaxSubtitleWords)}
        \cup {<<" ">> \o JoinWith(ws, <<"\n", " ">>) \o <<"\n">> :
                 ws \in SeqsUpTo(SubtitleWords, 2)}

SubtitlesInit ==
    /\ SynthIdle
    /\ orch = IdleOrch
    /\ codec \in {[fn |-> "_build_subtitles", pc |-> "call", text |-> str,
                   out |-> <<>>] : str \in SubtitleTexts}
    /\ catalog = {}
    /\ VOICE_CACHE = <<>>
    /\ resolving = <<>>
    /\ RequestIdle

\* subtitles = _build_subtitles(subtitle_text)
BuildSubtitlesCall ==
    /\ codec.fn = "_build_subtitles"
    /\ codec.pc = "call"
    /\ codec' = [codec EXCEPT !.pc = "done", !.out = BuildSubtitles(codec.text)]
    /\ UNCHANGED <<env, synthVars, net, orch, db, view, resolverVars>>

SubtitlesNext == BuildSubtitlesCall

SubtitlesSpec == SubtitlesInit /\ [][SubtitlesNext]_vars

(***************************************************************************)
(* Properties of the subtitles.                                            *)
(***************************************************************************)
Subtitled == codec.fn = "_build_subtitles" /\ codec.pc = "done"

\* a sentence: text without blanks around it, with no whitespace after a
\* ".", "!" or "?" inside it
IsSentence(str) ==
    /\ str # <<>>
    /\ ~IsSpace(str[1])
    /\ ~IsSpace(str[Len(str)])
    /\ \A i \in 2..Len(str) : ~(IsSpace(str[i]) /\ IsSentenceEnd(str[i - 1]))

\* the words of the entries from the first to the n-th
RECURSIVE WordsThrough(_, _)
WordsThrough(subtitles, n) ==
    IF n = 0 THEN <<>>
    ELSE WordsThrough(subtitles, n - 1) \o PySplit(subtitles[n].text)

\* C33: the subtitles are the sentences of the text in order, and their
\* words are the words of the text; the first entry starts at 0, every
\* other entry starts where the entry before it ends, and an entry ends at
\* the sum, rounded to hundredths of a second, of the durations of the
\* entries up to it, each its word count divided by 2.4 words a second; so
\* the timestamps never decrease and no entry ends before it starts.
C33_Subtitles ==
    Subtitled =>
        LET subtitles == codec.out
            n == Len(subtitles)
        IN  /\ \A i \in 1..n : IsSentence(subtitles[i].text)
            /\ \A i \in 1..(n - 1) :
                   IsSentenceEnd(subtitles[i].text[Len(subtitles[i].text)])
            /\ WordsThrough(subtitles, n) = PySplit(codec.text)
            /\ n > 0 => subtitles[1].start_sec = 0
            /\ \A i \in 2..n : subtitles[i].start_sec = subtitles[i - 1].end_sec
            /\ \A i \in 1..n :
                   \* | end_sec / 100 - words / 2.4 | <= 1 / 200, in 1/600 s
                   LET words == Len(WordsThrough(subtitles, i))
                       diff == 6 * subtitles[i].end_sec - 2 * 125 * words
                   IN  -3 <= diff /\ diff <= 3
            /\ \A i \in 1..n : subtitles[i].start_sec <= subtitles[i].end_sec
            /\ \A i \in 2..n : subtitles[i - 1].end_sec <= subtitles[i].end_sec

\* three one-word sentences with line breaks between them: the entries end
\* at 0.42 s, 0.83 s and 1.25 s
C33_Witness ==
    /\ Subtitled
    /\ Len(codec.out) = 3
    /\ Len(PySplit(codec.text)) = 3
    /\ codec.out[1].start_sec = 0
    /\ codec.out[1].end_sec = 42
    /\ codec.out[2].start_sec = 42
    /\ codec.out[2].end_sec = 83
    /\ codec.out[3].end_sec = 125

(***************************************************************************)
(* The per-chunk state machine of synthesize (lines 359-414).              *)
(***************************************************************************)
\* the latest visit of a chunk ended in a split
SplitVisit == visit_log.ended = "split"

\* C34 as claimed: the split is taken only from the first, non-strict
\* request of a chunk, never after a strict retry.
C34_Original == SplitVisit => Len(Reqs) = 1 /\ ~Reqs[1].audio_only

\* C34: a visit of a chunk sends a non-strict request and then only strict
\* ones; it is accepted only on a reply with audio; it ends in a split exactly
\* on a chunk error that is a token-limit error for a chunk above the word
\* floor, whichever request of the visit raised it (the first or a strict
\* retry), and a split on a no-audio message happens only once the strict
\* retries are used up.
C34_SplitAfterAnyAttempt ==
    /\ \A i \in 1..Len(Reqs) : Reqs[i].audio_only <=> i > 1
    /\ visit_log.ended = "accepted" => visit_log.last.kind = "audio"
    /\ SplitVisit =>
          /\ visit_log.last.kind # "audio"
          /\ IsTokenLimitError(visit_log.last.msg)
          /\ WordCount(Visited) > env.min_chunk_words
          /\ Len(Reqs) <= env.no_audio_retries + 1
          /\ IsNoAudioError(visit_log.last.msg) => Len(Reqs) = env.no_audio_retries + 1
    /\ visit_log.ended = "raised" /\ IsTokenLimitError(visit_log.last.msg) =>
          \/ WordCount(Visited) <= env.min_chunk_words
          \/ WordCount(Visited) < 2

\* a chunk was split on the token-limit error of a strict retry whose message
\* is not a no-audio message
C34_Witness ==
    /\ SplitVisit
    /\ Len(Reqs) = 2
    /\ Reqs[2].audio_only
    /\ Reqs[1].no_audio_reply
    /\ ~IsNoAudioError(visit_log.last.msg)
    /\ env.no_audio_retries = 2

(***************************************************************************)
(* The loop of _split_story, one iteration at a time, for every integer    *)
(* int(os.environ.get("GEMINI_TTS_MAX_WORDS_PER_CHUNK", "120")) can give.  *)
(***************************************************************************)
\* iterations of the while loop that are followed
MaxLoops == 8

\* seq[a:b] as Python evaluates it: a negative bound counts from the end,
\* bounds are clamped to the sequence, and an empty range gives []
PyIndex(n, i) == IF i < 0 THEN Max(n + i, 0) ELSE Min(i, n)

PySlice(s, a, b) ==
    LET lo == PyIndex(Len(s), a)
        hi == PyIndex(Len(s), b)
    IN  IF lo < hi THEN Slice(s, lo, hi) ELSE <<>>

\* the values of max_words: line 344 takes any integer of the environment
MaxWordsValues == (0 - 2)..MaxLimit

SplitStoryFrame(str, max_words) ==
    [fn |-> "_split_story", pc |-> "call", text |-> str, max_words |-> max_words,
     words |-> <<>>, chunks |-> <<>>, start |-> 0, out |-> <<>>]

SplitLoopInit ==
    /\ SynthIdle
    /\ orch = IdleOrch
    /\ codec \in {SplitStoryFrame(str, m) : str \in ChunkerTexts, m \in MaxWordsValues}
    /\ catalog = {}
    /\ VOICE_CACHE = <<>>
    /\ resolving = <<>>
    /\ RequestIdle

\* lines 120-127: no words, a text within the limit, or the loop is entered
SplitStoryEnter ==
    /\ codec.fn = "_split_story"
    /\ codec.pc = "call"
    /\ LET words == PySplit(codec.text)
       IN  codec' =
             IF words = <<>>
             THEN [codec EXCEPT !.words = words, !.pc = "return", !.out = <<>>]
             ELSE IF Len(words) <= codec.max_words
             THEN [codec EXCEPT !.words = words, !.pc = "return",
                                !.out = <<Strip(codec.text)>>]
             ELSE [codec EXCEPT !.words = words, !.pc = "loop", !.chunks = <<>>,
                                !.start = 0]
    /\ UNCHANGED <<env, synthVars, net, orch, db, view, catalog, VOICE_CACHE, resolving>>

\* lines 128-131: one iteration of while start < total
SplitStoryIterate ==
    /\ codec.fn = "_split_story"
    /\ codec.pc = "loop"
    /\ codec.start < Len(codec.words)
    /\ Len(codec.chunks) < MaxLoops
    /\ LET end == Min(codec.start + codec.max_words, Len(codec.words))
       IN  codec' = [codec EXCEPT
                        !.chunks = Append(@, Strip(Join(PySlice(codec.words,
                                                                codec.start, end)))),
                        !.start = end]
    /\ UNCHANGED <<env, synthVars, net, orch, db, view, catalog, VOICE_CACHE, resolving>>

\* lines 128 and 132: the loop condition fails and chunks is returned
SplitStoryReturn ==
    /\ codec.fn = "_split_story"
    /\ codec.pc = "loop"
    /\ codec.start >= Len(codec.words)
    /\ codec' = [codec EXCEPT !.pc = "return", !.out = codec.chunks]
    /\ UNCHANGED <<env, synthVars, net, orch, db, view, catalog, VOICE_CACHE, resolving>>

SplitLoopNext == SplitStoryEnter \/ SplitStoryIterate \/ SplitStoryReturn

SplitLoopSpec == SplitLoopInit /\ [][SplitLoopNext]_vars

InSplitLoop == codec.fn = "_split_story" /\ codec.pc = "loop"

\* C37: for every text and every integer max_words, each iteration of the
\* chunker's loop consumes at least one word, so that the loop ends within as
\* many iterations as the text has words, and no chunk emitted or returned is
\* empty.
C37_ChunkerTerminates ==
    codec.fn = "_split_story" =>
       /\ \A i \in 1..Len(codec.chunks) : codec.chunks[i] # <<>>
       /\ \A i \in 1..Len(codec.out) : codec.out[i] # <<>>
       /\ InSplitLoop =>
             /\ codec.start >= Len(codec.chunks)
             /\ Len(codec.chunks) <= Len(codec.words)

\* for limits of one word and more the loop does consume a word per
\* iteration and emits only non-empty chunks, and what it returns is
\* SplitStory's value
SplitLoopPositive ==
    codec.fn = "_split_story" /\ codec.max_words >= 1 =>
       /\ C37_ChunkerTerminates
       /\ codec.pc = "return" => codec.out = SplitStory(codec.text, codec.max_words)

(***************************************************************************)
(* Replies without an audio payload (lines 135-178, 211-213, 386-397).     *)
(***************************************************************************)
\* the last reply of the latest visit was a 200 reply without audio payload:
\* parts without audio data, no candidates, or no content parts
NoPayloadReply == visit_log.last.kind \in {"no_audio", "no_candidates", "no_parts"}

\* C35: a visit of a chunk ends on a reply without audio payload (no audio
\* data in the parts, no candidates, or no content parts) only when every
\* one of its no_audio_retries + 1 requests, the strict ones included, has
\* been sent.
C35_NoPayloadRetried ==
    VisitEnded /\ NoPayloadReply => Len(Reqs) = env.no_audio_retries + 1

(***************************************************************************)
(* The Gemini candidates of the background run (processor.py 15-27, 50-72) *)
(***************************************************************************)
Tried == orch.tried

PrefixWords == {320, 260, 220, 180, 140}

\* the stored audio is Gemini's
StoredGeminiAudio ==
    /\ db.status = "completed"
    /\ db.audio_data = GeminiAudio.audio_data
    /\ db.audio_format = GeminiAudio.audio_format

\* C40: in a background run Gemini is called only after a Google call that
\* gave no audio; its first call is for the full story, every later call for
\* the longest of the 320-, 260-, 220-, 180- and 140-word prefixes that is
\* shorter than the text of the call before; a call follows only calls that
\* raised a GeminiTTSError, so none follows a success; and Gemini audio stored
\* for a completed request is the audio returned by the last call, for the
\* full story or one of those prefixes.
C40_CandidateOrder ==
    orch.fn = "_process_request" =>
       /\ Tried # <<>> =>
             /\ orch.calls[1].provider = "google"
             /\ ~Truthy(orch.calls[1].ended)
             /\ Tried[1].words = orch.story.words
       /\ \A i \in 2..Len(Tried) :
             /\ Tried[i].words \in PrefixWords
             /\ Tried[i].words < Tried[i - 1].words
             /\ ~\E m \in PrefixWords : Tried[i].words < m /\ m < Tried[i - 1].words
       /\ \A i \in 1..(Len(Tried) - 1) :
             /\ Tried[i].ended.ret = "raise"
             /\ Tried[i].ended.val.type = "GeminiTTSError"
       /\ StoredGeminiAudio =>
             /\ Tried # <<>>
             /\ Tried[Len(Tried)].ended = Return(GeminiAudio)
             /\ Tried[Len(Tried)].words \in {orch.story.words} \cup PrefixWords
       /\ db.status = "completed" /\ db.audio_data = <<>> /\ AutoTts /\ orch.story.words > 0 =>
             /\ Len(Tried) = 1 + Cardinality({m \in PrefixWords : m < orch.story.words})
             /\ Tried[Len(Tried)].ended.ret = "raise"

\* Gemini failed on the full story of 321 words and on its 320-word prefix
\* and succeeded on the 260-word prefix, whose audio is stored
C40_Witness ==
    /\ orch.fn = "_process_request"
    /\ StoredGeminiAudio
    /\ orch.story.words = 321
    /\ Len(Tried) = 3
    /\ Tried[1].words = 321 /\ Tried[2].words = 320 /\ Tried[3].words = 260

(***************************************************************************)
(* The life of one story request: StoryRequestCreateView.post creates the  *)
(* row and starts the background thread (api.py 100-125, processor.py      *)
(* 116-118); _process_request runs on its own instance of the row          *)
(* (processor.py 30-113); StoryRequestSynthesizeAudioView.post may be      *)
(* called at any time (api.py 210-276).  orch is the background thread and *)
(* its story_request instance, view the endpoint's call, db the row.       *)
(***************************************************************************)
\* calls of the synthesize-audio endpoint that are followed
MaxPosts == 2

\* AUTO_TTS_AFTER_PIPELINE unset and set
LifecycleFlags == {<<>>, <<"1">>}

\* how run_pipeline ends: a result with its story_text, or an exception
PipelineResults ==
    {Return(st) : st \in {[empty |-> TRUE, words |-> 0],
                          [empty |-> FALSE, words |-> 1],
                          [empty |-> FALSE, words |-> 141]}}
        \cup {Raise(OtherError("Exception", "pipeline", 0, {}))}

\* how _synthesize_audio ends for the endpoint: audio, nothing, or its error
SynthesizeAudioResults ==
    {Return(GoogleAudio), Return(GeminiAudio), Return(PyNone), Raise(OrchError(<<>>))}

NewView ==
    [fn |-> "StoryRequestSynthesizeAudioView.post", pc |-> "idle", posts |-> 0,
     tts_result |-> PyNone, response |-> 0,
     stored |-> [during |-> "never", row |-> NoRow]]

LifecycleInit ==
    /\ SynthIdle
    /\ codec = IdleCodec
    /\ catalog = {}
    /\ VOICE_CACHE = <<>>
    /\ resolving = <<>>
    /\ db = NoRow
    /\ orch \in {[NewProc(f, [empty |-> TRUE, words |-> 0]) EXCEPT
                     !.pc = "none", !.status = "none"] : f \in LifecycleFlags}
    /\ view = NewView

\* api.py lines 117-125: a valid request creates the row, queued, and
\* enqueue_request starts the thread
CreatePost ==
    /\ orch.fn = "_process_request"
    /\ orch.pc = "none"
    /\ db = NoRow
    /\ db' = [NoRow EXCEPT !.status = "queued"]
    /\ orch' = [orch EXCEPT !.pc = "enqueued"]
    /\ UNCHANGED <<env, synthVars, net, codec, resolverVars, view>>

\* processor.py lines 31-32: the thread loads its instance of the row
ProcessLoad ==
    /\ orch.fn = "_process_request"
    /\ orch.pc = "enqueued"
    /\ orch' = [orch EXCEPT
          !.status = db.status, !.story = db.story_text,
          !.error_message = db.error_message, !.audio_data = db.audio_data,
          !.audio_format = db.audio_format, !.audio_url = db.audio_url,
          !.pc = "loaded"]
    /\ UNCHANGED <<env, synthVars, net, otherVars>>

\* lines 33-35: status processing, saved with update_fields
ProcessStart ==
    /\ orch.fn = "_process_request"
    /\ orch.pc = "loaded"
    /\ orch' = [orch EXCEPT !.status = "processing", !.error_message = <<>>,
                            !.pc = "pipeline"]
    /\ db' = [db EXCEPT !.status = "processing", !.error_message = <<>>]
    /\ UNCHANGED <<env, synthVars, net, codec, resolverVars, view>>

\* lines 38-48, and 107-111 if run_pipeline raises
RunPipeline ==
    /\ orch.fn = "_process_request"
    /\ orch.pc = "pipeline"
    /\ \E r \in PipelineResults :
          /\ orch' = IF r.ret = "return"
                     THEN [orch EXCEPT !.story = r.val, !.pc = "tts"]
                     ELSE Failed(orch, r.val)
          /\ db' = IF r.ret = "return" THEN db ELSE RowOf(Failed(orch, r.val))
    /\ UNCHANGED <<env, synthVars, net, codec, resolverVars, view>>

\* the background run has set processing and not made its last save
RunInProgress ==
    orch.fn = "_process_request" /\ orch.pc \in {"pipeline", "tts", "candidates", "save"}

Responded(code) == [view EXCEPT !.pc = "responded", !.response = code]

\* api.py lines 211-232: the row, the text and the tone
SynthesizePost ==
    /\ view.fn = "StoryRequestSynthesizeAudioView.post"
    /\ view.pc \in {"idle", "responded"}
    /\ view.posts < MaxPosts
    /\ \E text_given \in BOOLEAN, tone_ok \in BOOLEAN :
          LET call == [view EXCEPT !.posts = @ + 1, !.tts_result = PyNone]
              blank == ~text_given /\ (db.story_text.empty \/ db.story_text.words = 0)
          IN  view' = IF db = NoRow THEN [call EXCEPT !.pc = "responded", !.response = 404]
                      ELSE IF blank \/ ~tone_ok
                      THEN [call EXCEPT !.pc = "responded", !.response = 400]
                      ELSE [call EXCEPT !.pc = "synthesize", !.response = 0]
    /\ UNCHANGED <<env, synthVars, net, orch, codec, resolverVars, db>>

\* lines 234-240: _synthesize_audio(narration_text, tone)
SynthesizeCall ==
    /\ view.fn = "StoryRequestSynthesizeAudioView.post"
    /\ view.pc = "synthesize"
    /\ \E r \in SynthesizeAudioResults :
          view' = IF Truthy(r)
                  THEN [view EXCEPT !.tts_result = r.val, !.pc = "persist"]
                  ELSE Responded(500)
    /\ UNCHANGED <<env, synthVars, net, orch, codec, resolverVars, db>>

\* the row after save(update_fields=['audio_data', 'audio_format',
\* 'audio_url', 'error_message', 'updated_at'])
Persisted(row, tts_result) ==
    [row EXCEPT !.audio_data = tts_result.audio_data,
                !.audio_format = tts_result.audio_format,
                !.audio_url = MediaUrl(tts_result.audio_format),
                !.error_message = <<>>]

\* lines 242-276: the file is written and the audio fields are saved, or
\* the response is a 500
PersistAudio ==
    /\ view.fn = "StoryRequestSynthesizeAudioView.post"
    /\ view.pc = "persist"
    /\ \E written \in BOOLEAN :
          /\ db' = IF written THEN Persisted(db, view.tts_result) ELSE db
          /\ view' = IF written
                     THEN [Responded(200) EXCEPT
                              !.stored = [during |-> IF RunInProgress THEN "run"
                                                     ELSE "no run",
                                          row |-> Persisted(db, view.tts_result)]]
                     ELSE Responded(500)
    /\ UNCHANGED <<env, synthVars, net, orch, codec, resolverVars>>

BackgroundNext ==
    \/ ProcessLoad
    \/ ProcessStart
    \/ RunPipeline
    \/ ProcGoogle
    \/ ProcGemini
    \/ ProcSave

LifecycleNext ==
    \/ CreatePost
    \/ BackgroundNext
    \/ SynthesizePost
    \/ SynthesizeCall
    \/ PersistAudio

LifecycleSpec == LifecycleInit /\ [][LifecycleNext]_vars

\* the thread that was started runs, and every call it makes returns
LifecycleLiveSpec == LifecycleSpec /\ WF_vars(BackgroundNext)

StatusTerminal == db.status \in {"completed", "failed"}

\* the status moves only queued -> processing -> (completed | failed)
StatusMoves ==
    [][db.status' # db.status =>
          <<db.status, db.status'>> \in {<<"none", "queued">>, <<"queued", "processing">>,
                                         <<"processing", "completed">>,
                                         <<"processing", "failed">>}]_vars

\* a run that has set processing sets completed or failed
RunEnds == (db.status = "processing") ~> StatusTerminal

\* the run's last save stored the status of its instance
RunSaved == orch.fn = "_process_request" /\ orch.pc = "saved"

\* a request is failed only by its pipeline: a run that reached the audio
\* part ends completed, with the audio-failure message if the providers that
\* were called gave no audio
TtsFailureCompletes ==
    RunSaved /\ orch.status = "failed" => orch.calls = <<>>

AudioFailureMessage ==
    RunSaved /\ orch.status = "completed" /\ orch.calls # <<>> /\ orch.tts_result = PyNone =>
       /\ Len(orch.error_message) = 1
       /\ orch.error_message[1].text \in {"Audio generation failed. Last error: ",
                                          "Audio generation failed."}

\* C38: the status of a story request moves only queued -> processing ->
\* (completed | failed); a run that has set processing sets completed or
\* failed whatever the pipeline and the providers do; a failure of the TTS
\* providers alone gives completed with an audio-failure message, never
\* failed; and nothing changes the status after completed or failed.
C38_Lifecycle ==
    /\ StatusMoves
    /\ RunEnds
    /\ [](TtsFailureCompletes /\ AudioFailureMessage)

\* C39: audio the endpoint stored while the background run was in progress
\* is still stored once the run has made its last save, unless the endpoint
\* has stored audio again since.
C39_NoLostUpdate ==
    RunSaved /\ view.stored.during = "run" =>
       /\ db.audio_data = view.stored.row.audio_data
       /\ db.audio_format = view.stored.row.audio_format
       /\ db.audio_url = view.stored.row.audio_url

====
